---- MODULE Spec2Model ----
(***************************************************************************)
(* Model of the question-answering workflow of src/src/graph.py            *)
(* (AgenticGraph): the nodes of the LangGraph state machine, the routing   *)
(* functions on its conditional edges and AgenticGraph.run.                *)
(*                                                                         *)
(* Texts are sequences of tokens, so that an f-string is a concatenation   *)
(* and "contains" is a sub-sequence test.  An Optional value is a sequence *)
(* of length at most one: None is <<>> and a present value v is <<v>>.     *)
(***************************************************************************)
EXTENDS Integers, Sequences, FiniteSets, TLC

\* ------------------------------------------------------------------ bounds
\* longest sub-question list the complexity detection returns
MaxSubQ == 2

\* longest user or thread identifier
MaxIdLen == 2

\* number of register_thread calls and of chat runs in one session
MaxClock == 3
MaxTurns == 2

\* longest column list of a table
MaxCols == 2

\* number of changes a caller makes to the mapping it got from get()
MaxEdits == 1

\* longest workbook stem and longest sheet name
MaxNameLen == 2

\* number of sheets in a workbook
MaxSheets == 2

\* largest number of rows in a query result
MaxRows == 75

\* longest AGENT_TEMPERATURE value, in characters
MaxEnvLen == 2

\* most lines the operator types in a chat session
MaxLines == 2

\* ------------------------------------------------------- program constants
\* self.max_retries = 3
max_retries == 3

\* results[:50]
RowLimit == 50

\* ------------------------------------------------------- optional values
None == <<>>
Some(v) == <<v>>

\* Python truthiness of an Optional[str] / Optional[list]:
\* None, "" and [] are falsy
Truthy(o) == o # None /\ o[1] # <<>>

\* Python truthiness of an Optional[bool]
TruthyBool(o) == o # None /\ o[1] = TRUE

\* ------------------------------------------------------------------ texts
LowerCase == <<"a","b","c","d","e","f","g","h","i","j","k","l","m",
               "n","o","p","q","r","s","t","u","v","w","x","y","z">>
UpperCase == <<"A","B","C","D","E","F","G","H","I","J","K","L","M",
               "N","O","P","Q","R","S","T","U","V","W","X","Y","Z">>

\* str.upper() on one character
UpperChar(c) ==
    IF \E i \in 1..26 : LowerCase[i] = c
    THEN UpperCase[CHOOSE i \in 1..26 : LowerCase[i] = c]
    ELSE c

\* str.upper()
Upper(text) == [i \in 1..Len(text) |-> UpperChar(text[i])]

\* the `in` operator on strings: needle occurs in hay as a contiguous run
Contains(hay, needle) ==
    \E i \in 0..(Len(hay) - Len(needle)) :
        SubSeq(hay, i + 1, i + Len(needle)) = needle

\* the literal "NEED_QUERY"
NEED_QUERY == <<"N","E","E","D","_","Q","U","E","R","Y">>

\* ------------------------------------------------- the environment's values
\* user questions
Questions == { <<"question">> }

\* schema_manager.describe()
SchemaSummary == <<"schema">>

\* replies of SupervisorAgent.analyze_question, character by character
AnalysisReplies ==
    { NEED_QUERY,
      <<"n","e","e","d","_","q","u","e","r","y">>,
      <<"Y","e","s",":"," ","N","e","e","d","_","Q","u","e","r","y","!">>,
      <<"n","e","e","d"," ","q","u","e","r","y">>,
      <<"H","i">>,
      <<>> }

\* messages of the exceptions the agents and the database raise
ErrMsgs == { <<"boom">> }

\* SQL strings the query-writer returns (empty when the reply was only fences)
Queries == { <<>>, <<"sqlA">>, <<"sqlB">> }

\* diagnostics of a failed structural validation
Diagnostics == { <<"binder error">> }

\* row lists db.query returns
ResultSets == { <<>>, <<"row">> }

\* answers of synthesize_answer / aggregate_results (a reply may be empty)
Answers == { <<>>, <<"final answer">> }

\* the k-th sub-question of a decomposition and the list of the first n
SubQuestionText(k) == <<"sub-question", ToString(k)>>
SubQuestionList(n) == [k \in 1..n |-> SubQuestionText(k)]

\* an external call either returns a value or raises
Returns(V) == { [kind |-> "ok", val |-> v, exc |-> <<>>] : v \in V }
Raises == { [kind |-> "raise", val |-> <<>>, exc |-> e] : e \in ErrMsgs }

\* ------------------------------------------------------------------ state
Nodes == { "supervisor", "expansion", "sub_question", "coding", "verify",
           "execute", "collect", "aggregation", "synthesize" }

VARIABLES
    pc,        \* "idle", the node about to run, "END", or "returned"
    state,     \* the GraphState threaded through the nodes
    visited,   \* observer: the nodes that have run in this run
    cyc,       \* observer: calls made for the current (sub-)question
    prepared,  \* observer: the questions set by sub_question, in order
    execLog,   \* observer: one entry per visit of execute
    composed,  \* observer: the calls asking the interpreter for an answer
    analysis,  \* observer: the outcome of analyze_question, once made
    detected,  \* observer: what detect_complexity returned, once made
    keyio,     \* thread keys: the identifiers given and the keys made and parsed
    memory,    \* the MemoryManager, the checkpoint store and the chat session
    registry,  \* the SchemaManager and the snapshot file
    reader,    \* a SchemaManager read through describe, get and get_columns
    loader,    \* one load_excel_files call over a data directory
    agent,     \* one SupervisorAgent call and the reply it parses
    cli,       \* one run of the command-line entry point
    conv,      \* one conversion function of the loader, its input and output
    config,    \* the environment and the Settings resolved from it
    chat       \* one run_interactive_chat session

\* the variables of the workflow, and the ones each component leaves alone
graphVars == <<pc, state, visited, cyc, prepared, execLog, composed, analysis, detected>>
outsideGraph == <<keyio, memory, registry, reader, loader, agent, cli, conv, config, chat>>
outsideKeys == <<graphVars, memory, registry, reader, loader, agent, cli, conv, config, chat>>
outsideMemory == <<graphVars, keyio, registry, reader, loader, agent, cli, conv, config, chat>>
outsideRegistry == <<graphVars, keyio, memory, reader, loader, agent, cli, conv, config, chat>>
outsideReader == <<graphVars, keyio, memory, registry, loader, agent, cli, conv, config, chat>>
outsideLoader == <<graphVars, keyio, memory, registry, reader, agent, cli, conv, config, chat>>
outsideAgent == <<graphVars, keyio, memory, registry, reader, loader, cli, conv, config, chat>>
outsideCli == <<graphVars, keyio, memory, registry, reader, loader, agent, conv, config, chat>>
outsideConfig == <<graphVars, keyio, memory, registry, reader, loader, agent, cli, conv, chat>>
outsideChat == <<graphVars, keyio, memory, registry, reader, loader, agent, cli, conv, config>>
outsideConv == <<graphVars, keyio, memory, registry, reader, loader, agent, cli, config, chat>>

vars == <<graphVars, keyio, memory, registry, reader, loader, agent, cli, conv, config, chat>>

\* GraphState with every optional field cleared
BlankState ==
    [ messages |-> <<>>,
      question |-> <<>>,
      original_question |-> None,
      schema_info |-> <<>>,
      query |-> None,
      results |-> None,
      answer |-> None,
      error |-> None,
      needs_query |-> None,
      query_is_valid |-> None,
      query_feedback |-> None,
      retries |-> 0,
      is_complex |-> None,
      sub_questions |-> None,
      current_sub_question_index |-> 0,
      sub_results |-> None ]

\* initial_state of AgenticGraph.run
InitialState(question) ==
    [ BlankState EXCEPT
        !.messages = << [role |-> "human", content |-> question] >>,
        !.question = question,
        !.original_question = Some(question),
        !.schema_info = SchemaSummary ]

NewCycle == [gen |-> 0, genFail |-> 0, lastFailed |-> FALSE, val |-> 0, invalid |-> 0]

\* the observers' counters stop counting here, above anything a run reaches
ObserverCap == max_retries + 2
Count(n) == IF n < ObserverCap THEN n + 1 ELSE n

\* the workflow before any run
GraphInit ==
    /\ pc = "idle"
    /\ state = BlankState
    /\ visited = {}
    /\ cyc = NewCycle
    /\ prepared = <<>>
    /\ execLog = <<>>
    /\ composed = <<>>
    /\ analysis = None
    /\ detected = None

Init ==
    /\ GraphInit
    /\ config = None
    /\ chat = None
    /\ keyio = None
    /\ memory = None
    /\ registry = None
    /\ reader = None
    /\ loader = None
    /\ agent = None
    /\ cli = None
    /\ conv = None

\* ------------------------------------------------------------------- nodes
\* _supervisor_node whose except branch stores the text as the answer
supervisor_node_error_as_answer(s, out) ==
    IF out.kind = "raise"
    THEN [s EXCEPT !.answer = Some(<<"Supervisor error: ">> \o out.exc),
                   !.needs_query = Some(FALSE)]
    ELSE IF ~ Contains(Upper(out.val), NEED_QUERY)
         THEN [s EXCEPT !.answer = Some(out.val),
                        !.needs_query = Some(FALSE)]
         ELSE [s EXCEPT !.needs_query = Some(TRUE),
                        !.retries = 0]

\* AgenticGraph._supervisor_node; out is the outcome of analyze_question
supervisor_node(s, out) ==
    IF out.kind = "raise"
    THEN [s EXCEPT !.error = Some(<<"Supervisor error: ">> \o out.exc),
                   !.needs_query = Some(FALSE)]
    ELSE IF ~ Contains(Upper(out.val), NEED_QUERY)
         THEN [s EXCEPT !.answer = Some(out.val),
                        !.needs_query = Some(FALSE)]
         ELSE [s EXCEPT !.needs_query = Some(TRUE),
                        !.retries = 0]

\* _should_query testing `is not None` instead of truthiness
should_query_not_none(s) == IF s.needs_query # None THEN "query" ELSE "end"

\* AgenticGraph._should_query
should_query(s) == IF TruthyBool(s.needs_query) THEN "query" ELSE "end"

\* replies of the model to the complexity prompt: text that is not JSON, or
\* a JSON object (sub_questions may be null)
ComplexityReplies ==
    { [parses |-> FALSE, is_complex |-> FALSE, sub_questions |-> None] }
    \cup { [parses |-> TRUE, is_complex |-> b, sub_questions |-> sq] :
             b \in BOOLEAN,
             sq \in {None} \cup { Some(SubQuestionList(n)) : n \in 0..MaxSubQ } }

\* SupervisorAgent.detect_complexity; llm is the outcome of self.llm.invoke
detect_complexity(question, llm) ==
    IF llm.kind = "raise" \/ ~ llm.val.parses
    THEN [is_complex |-> FALSE, sub_questions |-> Some(<<>>),
          original_question |-> question]
    ELSE [is_complex |-> llm.val.is_complex,
          sub_questions |-> llm.val.sub_questions,
          original_question |-> question]

\* AgenticGraph._expansion_node; result is what detect_complexity returned.
\* len(None) raises inside the try block, after the fields were assigned.
expansion_node(s, result) ==
    LET s1 == [s EXCEPT !.is_complex = Some(result.is_complex),
                        !.original_question = Some(result.original_question)]
        s2 == [s1 EXCEPT !.sub_questions = result.sub_questions,
                         !.current_sub_question_index = 0,
                         !.sub_results = Some(<<>>)]
    IN  IF result.is_complex
        THEN IF result.sub_questions = None
             THEN [s2 EXCEPT !.is_complex = Some(FALSE)]
             ELSE s2
        ELSE s1

\* AgenticGraph._check_complexity
check_complexity(s) ==
    IF TruthyBool(s.is_complex) /\ Truthy(s.sub_questions)
    THEN "expand" ELSE "simple"

\* state.get("sub_questions", []) where a list is needed
SubQuestionsOf(s) == IF s.sub_questions = None THEN <<>> ELSE s.sub_questions[1]

\* _sub_question_node without the reset of results
sub_question_node_keeps_results(s) ==
    LET idx == s.current_sub_question_index
        sub_questions == SubQuestionsOf(s)
    IN  IF idx < Len(sub_questions)
        THEN [s EXCEPT !.question = sub_questions[idx + 1],
                       !.query = None,
                       !.query_is_valid = None,
                       !.query_feedback = None,
                       !.error = None,
                       !.retries = 0]
        ELSE s

\* _sub_question_node without the reset of retries
sub_question_node_keeps_retries(s) ==
    LET idx == s.current_sub_question_index
        sub_questions == SubQuestionsOf(s)
    IN  IF idx < Len(sub_questions)
        THEN [s EXCEPT !.question = sub_questions[idx + 1],
                       !.query = None,
                       !.results = None,
                       !.query_is_valid = None,
                       !.query_feedback = None,
                       !.error = None]
        ELSE s

\* AgenticGraph._sub_question_node
sub_question_node(s) ==
    LET idx == s.current_sub_question_index
        sub_questions == SubQuestionsOf(s)
    IN  IF idx < Len(sub_questions)
        THEN [s EXCEPT !.question = sub_questions[idx + 1],
                       !.query = None,
                       !.results = None,
                       !.query_is_valid = None,
                       !.query_feedback = None,
                       !.error = None,
                       !.retries = 0]
        ELSE s

\* AgenticGraph._coding_node; out is the outcome of coder.generate_query
coding_node(s, out) ==
    IF out.kind = "ok"
    THEN [s EXCEPT !.query = Some(out.val)]
    ELSE [s EXCEPT !.error = Some(<<"Query generation error: ">> \o out.exc),
                   !.retries = @ + 1]

\* what db.validate_schema returns
ValidationRecords ==
    { [valid |-> TRUE, error |-> <<>>] }
    \cup { [valid |-> FALSE, error |-> d] : d \in Diagnostics }

\* TRUE iff _verify_node calls db.validate_schema in state s
VerifyCallsValidate(s) == ~ Truthy(s.error)

\* _verify_node that never increments retries
verify_node_no_increment(s, out) ==
    IF Truthy(s.error)
    THEN [s EXCEPT !.query_is_valid = Some(FALSE),
                   !.query_feedback = s.error,
                   !.error = None]
    ELSE IF out.kind = "ok"
         THEN [s EXCEPT !.query_is_valid = Some(out.val.valid),
                        !.query_feedback = Some(out.val.error)]
         ELSE [s EXCEPT !.query_is_valid = Some(TRUE),
                        !.query_feedback =
                            Some(<<"Verification system error: ">> \o out.exc)]

\* _verify_node that increments retries again for a pending error
verify_node_counts_again(s, out) ==
    IF Truthy(s.error)
    THEN [s EXCEPT !.query_is_valid = Some(FALSE),
                   !.query_feedback = s.error,
                   !.error = None,
                   !.retries = @ + 1]
    ELSE IF out.kind = "ok"
         THEN [s EXCEPT !.query_is_valid = Some(out.val.valid),
                        !.query_feedback = Some(out.val.error),
                        !.retries = IF out.val.valid THEN @ ELSE @ + 1]
         ELSE [s EXCEPT !.query_is_valid = Some(TRUE),
                        !.query_feedback =
                            Some(<<"Verification system error: ">> \o out.exc)]

\* AgenticGraph._verify_node; out is the outcome of db.validate_schema
verify_node(s, out) ==
    IF Truthy(s.error)
    THEN [s EXCEPT !.query_is_valid = Some(FALSE),
                   !.query_feedback = s.error,
                   !.error = None]
    ELSE IF out.kind = "ok"
         THEN [s EXCEPT !.query_is_valid = Some(out.val.valid),
                        !.query_feedback = Some(out.val.error),
                        !.retries = IF out.val.valid THEN @ ELSE @ + 1]
         ELSE [s EXCEPT !.query_is_valid = Some(TRUE),
                        !.query_feedback =
                            Some(<<"Verification system error: ">> \o out.exc)]

\* _check_verification comparing with > instead of >=
check_verification_off_by_one(s) ==
    IF TruthyBool(s.query_is_valid) THEN "execute"
    ELSE IF s.retries > max_retries THEN "execute"
    ELSE "retry_coding"

\* AgenticGraph._check_verification
check_verification(s) ==
    IF TruthyBool(s.query_is_valid) THEN "execute"
    ELSE IF s.retries >= max_retries THEN "execute"
    ELSE "retry_coding"

\* TRUE iff _execute_node calls db.query in state s
ExecuteCallsQuery(s) == ~ Truthy(s.error) /\ Truthy(s.query)

\* AgenticGraph._execute_node; out is the outcome of db.query
execute_node(s, out) ==
    IF Truthy(s.error) THEN s
    ELSE IF ~ Truthy(s.query)
         THEN [s EXCEPT !.error = Some(<<"No query to execute">>)]
         ELSE IF out.kind = "ok"
              THEN [s EXCEPT !.results = Some(out.val)]
              ELSE [s EXCEPT !.error =
                        Some(<<"Query execution error: ">> \o out.exc)]

\* the routing lambda testing `is not None` instead of truthiness
after_execute_not_none(s) == IF s.is_complex # None THEN "collect" ELSE "synthesize"

\* the routing lambda on the edge out of execute
after_execute(s) == IF TruthyBool(s.is_complex) THEN "collect" ELSE "synthesize"

\* TRUE iff _synthesize_node calls supervisor.synthesize_answer in state s
SynthesizeCallsLLM(s) == ~ Truthy(s.error)

\* AgenticGraph._synthesize_node; out is the outcome of synthesize_answer
synthesize_node(s, out) ==
    IF Truthy(s.error)
    THEN [s EXCEPT !.answer = Some(<<"I encountered an error: ">> \o s.error[1])]
    ELSE IF out.kind = "ok"
         THEN [s EXCEPT !.answer = Some(out.val)]
         ELSE [s EXCEPT
                 !.error = Some(<<"Synthesis error: ">> \o out.exc),
                 !.answer = Some(<<"I encountered an error while synthesizing the answer: ">>
                                 \o out.exc)]

\* AgenticGraph._collect_result_node
collect_result_node(s) ==
    LET idx == s.current_sub_question_index
        sub_questions == SubQuestionsOf(s)
        sub_result == [sub_question |-> sub_questions[idx + 1],
                       query |-> s.query,
                       results |-> s.results]
        so_far == IF s.sub_results = None THEN <<>> ELSE s.sub_results[1]
    IN  IF idx < Len(sub_questions)
        THEN [s EXCEPT !.sub_results = Some(Append(so_far, sub_result)),
                       !.current_sub_question_index = idx + 1]
        ELSE s

\* AgenticGraph._has_more_sub_questions
has_more_sub_questions(s) ==
    IF s.current_sub_question_index < Len(SubQuestionsOf(s))
    THEN "more" ELSE "aggregate"

\* TRUE iff _aggregation_node calls supervisor.aggregate_results in state s
AggregationCallsLLM(s) == Truthy(s.sub_results)

\* AgenticGraph._aggregation_node; out is the outcome of aggregate_results
aggregation_node(s, out) ==
    IF ~ Truthy(s.sub_results)
    THEN [s EXCEPT !.answer = Some(<<"No results to aggregate.">>)]
    ELSE IF out.kind = "ok"
         THEN [s EXCEPT !.answer = Some(out.val)]
         ELSE [s EXCEPT
                 !.error = Some(<<"Aggregation error: ">> \o out.exc),
                 !.answer = Some(<<"I encountered an error while aggregating results: ">>
                                 \o out.exc)]

\* the tail of run testing `is not None` instead of truthiness
run_return_not_none(final_state) ==
    IF final_state.answer # None
    THEN [final_state EXCEPT
            !.messages = @ \o << [role |-> "assistant",
                                  content |-> final_state.answer[1]] >>]
    ELSE final_state

\* the tail of AgenticGraph.run: the answer becomes an assistant turn
run_return(final_state) ==
    IF Truthy(final_state.answer)
    THEN [final_state EXCEPT
            !.messages = @ \o << [role |-> "assistant",
                                  content |-> final_state.answer[1]] >>]
    ELSE final_state

\* ----------------------------------------------------------------- actions
\* AgenticGraph.run up to graph.invoke: the entry point is supervisor
Run ==
    /\ pc = "idle"
    /\ \E question \in Questions : state' = InitialState(question)
    /\ pc' = "supervisor"
    /\ UNCHANGED <<visited, cyc, prepared, execLog, composed, analysis, detected>>
    /\ UNCHANGED outsideGraph

\* node supervisor and its conditional edge
Supervisor ==
    /\ pc = "supervisor"
    /\ \E out \in Returns(AnalysisReplies) \cup Raises :
          /\ state' = supervisor_node(state, out)
          /\ analysis' = Some(out)
    /\ pc' = IF should_query(state') = "query" THEN "expansion" ELSE "END"
    /\ visited' = visited \cup {"supervisor"}
    /\ UNCHANGED <<cyc, prepared, execLog, composed, detected>>
    /\ UNCHANGED outsideGraph

\* node expansion and its conditional edge
Expansion ==
    /\ pc = "expansion"
    /\ \E llm \in Returns(ComplexityReplies) \cup Raises :
          LET result == detect_complexity(state.question, llm)
          IN  /\ state' = expansion_node(state, result)
              /\ detected' = Some(result)
    /\ pc' = IF check_complexity(state') = "expand" THEN "sub_question" ELSE "coding"
    /\ visited' = visited \cup {"expansion"}
    /\ UNCHANGED <<cyc, prepared, execLog, composed, analysis>>
    /\ UNCHANGED outsideGraph

\* node sub_question and its edge to coding
SubQuestion ==
    /\ pc = "sub_question"
    /\ state' = sub_question_node(state)
    /\ pc' = "coding"
    /\ visited' = visited \cup {"sub_question"}
    /\ cyc' = NewCycle
    /\ prepared' = Append(prepared, state'.question)
    /\ UNCHANGED <<execLog, composed, analysis, detected>>
    /\ UNCHANGED outsideGraph

\* node coding and its edge to verify
Coding ==
    /\ pc = "coding"
    /\ \E out \in Returns(Queries) \cup Raises :
          /\ state' = coding_node(state, out)
          /\ cyc' = [cyc EXCEPT !.gen = Count(@),
                                !.genFail = IF out.kind = "raise" THEN Count(@) ELSE @,
                                !.lastFailed = (out.kind = "raise")]
    /\ pc' = "verify"
    /\ visited' = visited \cup {"coding"}
    /\ UNCHANGED <<prepared, execLog, composed, analysis, detected>>
    /\ UNCHANGED outsideGraph

\* node verify and its conditional edge
Verify ==
    /\ pc = "verify"
    /\ \E out \in Returns(ValidationRecords) \cup Raises :
          /\ state' = verify_node(state, out)
          /\ cyc' = IF VerifyCallsValidate(state)
                    THEN [cyc EXCEPT !.val = Count(@),
                                     !.invalid = IF out.kind = "ok" /\ ~ out.val.valid
                                                 THEN Count(@) ELSE @]
                    ELSE cyc
    /\ pc' = IF check_verification(state') = "execute" THEN "execute" ELSE "coding"
    /\ visited' = visited \cup {"verify"}
    /\ UNCHANGED <<prepared, execLog, composed, analysis, detected>>
    /\ UNCHANGED outsideGraph

\* node execute and its conditional edge
Execute ==
    /\ pc = "execute"
    /\ \E out \in Returns(ResultSets) \cup Raises :
          /\ state' = execute_node(state, out)
          /\ execLog' = Append(execLog,
                IF ExecuteCallsQuery(state)
                THEN [called |-> TRUE, sql |-> state.query,
                      rows |-> IF out.kind = "ok" THEN Some(out.val) ELSE None,
                      raised |-> IF out.kind = "raise" THEN Some(out.exc) ELSE None]
                ELSE [called |-> FALSE, sql |-> None, rows |-> None, raised |-> None])
    /\ pc' = after_execute(state')
    /\ visited' = visited \cup {"execute"}
    /\ UNCHANGED <<cyc, prepared, composed, analysis, detected>>
    /\ UNCHANGED outsideGraph

\* node collect and its conditional edge
Collect ==
    /\ pc = "collect"
    /\ state' = collect_result_node(state)
    /\ pc' = IF has_more_sub_questions(state') = "more" THEN "sub_question" ELSE "aggregation"
    /\ visited' = visited \cup {"collect"}
    /\ UNCHANGED <<cyc, prepared, execLog, composed, analysis, detected>>
    /\ UNCHANGED outsideGraph

\* node aggregation and its edge to END
Aggregation ==
    /\ pc = "aggregation"
    /\ \E out \in Returns(Answers) \cup Raises :
          /\ state' = aggregation_node(state, out)
          /\ composed' = IF AggregationCallsLLM(state)
                         THEN Append(composed, [role |-> "aggregate",
                                                sub_results |-> state.sub_results[1],
                                                raised |-> IF out.kind = "raise" THEN Some(out.exc) ELSE None])
                         ELSE composed
    /\ pc' = "END"
    /\ visited' = visited \cup {"aggregation"}
    /\ UNCHANGED <<cyc, prepared, execLog, analysis, detected>>
    /\ UNCHANGED outsideGraph

\* node synthesize and its edge to END
Synthesize ==
    /\ pc = "synthesize"
    /\ \E out \in Returns(Answers) \cup Raises :
          /\ state' = synthesize_node(state, out)
          /\ composed' = IF SynthesizeCallsLLM(state)
                         THEN Append(composed, [role |-> "synthesize",
                                                results |-> state.results,
                                                raised |-> IF out.kind = "raise" THEN Some(out.exc) ELSE None])
                         ELSE composed
    /\ pc' = "END"
    /\ visited' = visited \cup {"synthesize"}
    /\ UNCHANGED <<cyc, prepared, execLog, analysis, detected>>
    /\ UNCHANGED outsideGraph

\* AgenticGraph.run after graph.invoke returned
RunReturn ==
    /\ pc = "END"
    /\ state' = run_return(state)
    /\ pc' = "returned"
    /\ UNCHANGED <<visited, cyc, prepared, execLog, composed, analysis, detected>>
    /\ UNCHANGED outsideGraph

Next ==
    \/ Run
    \/ Supervisor
    \/ Expansion
    \/ SubQuestion
    \/ Coding
    \/ Verify
    \/ Execute
    \/ Collect
    \/ Aggregation
    \/ Synthesize
    \/ RunReturn

Spec == Init /\ [][Next]_vars

\* graph.invoke runs node after node until END, and every call a node makes
\* returns or raises: a step that is enabled is eventually taken
FairSpec == Spec /\ WF_vars(Next)

TypeOK ==
    /\ pc \in Nodes \cup {"idle", "END", "returned"}
    /\ state.retries \in 0..max_retries
    /\ visited \subseteq Nodes
    /\ cyc.gen <= max_retries /\ cyc.val <= max_retries

\* ------------------------------------------------------------- thread keys
\* (src/src/memory.py: MemoryManager.make_thread_id, parse_thread_id,
\* get_config)

\* user and thread identifiers, character by character
IdChars == {"a", "_"}
Ids == UNION { [1..n -> IdChars] : n \in 0..MaxIdLen }

\* the "__" of the namespaced format
Separator == <<"_", "_">>

\* the literal "unknown"
Unknown == <<"u","n","k","n","o","w","n">>

\* MemoryManager.make_thread_id
make_thread_id(user_id, thread_id) == user_id \o Separator \o thread_id

\* get_config passing the thread name through without the namespace
get_config_raw_thread(user_id, thread_id) ==
    [configurable |-> [thread_id |-> thread_id]]

\* MemoryManager.get_config
get_config(user_id, thread_id) ==
    [configurable |-> [thread_id |-> make_thread_id(user_id, thread_id)]]

\* TRUE iff sep occurs in text at position i
OccursAt(text, sep, i) ==
    /\ i >= 1
    /\ i + Len(sep) - 1 <= Len(text)
    /\ SubSeq(text, i, i + Len(sep) - 1) = sep

\* str.split(sep, 1): cut at the leftmost occurrence of sep
SplitOnce(text, sep) ==
    IF \E i \in 1..Len(text) : OccursAt(text, sep, i)
    THEN LET i == CHOOSE k \in 1..Len(text) :
                     /\ OccursAt(text, sep, k)
                     /\ \A j \in 1..(k - 1) : ~ OccursAt(text, sep, j)
         IN  << SubSeq(text, 1, i - 1), SubSeq(text, i + Len(sep), Len(text)) >>
    ELSE << text >>

\* str.rsplit(sep, 1): cut at the rightmost occurrence of sep
RSplitOnce(text, sep) ==
    IF \E i \in 1..Len(text) : OccursAt(text, sep, i)
    THEN LET i == CHOOSE k \in 1..Len(text) :
                     /\ OccursAt(text, sep, k)
                     /\ \A j \in (k + 1)..Len(text) : ~ OccursAt(text, sep, j)
         IN  << SubSeq(text, 1, i - 1), SubSeq(text, i + Len(sep), Len(text)) >>
    ELSE << text >>

\* parse_thread_id cutting at the last separator
parse_thread_id_rsplit(namespaced_id) ==
    LET parts == RSplitOnce(namespaced_id, Separator)
    IN  IF Len(parts) = 2 THEN <<parts[1], parts[2]>>
        ELSE <<Unknown, namespaced_id>>

\* MemoryManager.parse_thread_id
parse_thread_id(namespaced_id) ==
    LET parts == SplitOnce(namespaced_id, Separator)
    IN  IF Len(parts) = 2 THEN <<parts[1], parts[2]>>
        ELSE <<Unknown, namespaced_id>>

\* two users and a thread name are given
KeyInit ==
    /\ GraphInit
    /\ config = None
    /\ chat = None
    /\ memory = None
    /\ registry = None
    /\ reader = None
    /\ loader = None
    /\ agent = None
    /\ cli = None
    /\ conv = None
    /\ keyio \in { [phase |-> "given", user1 |-> u1, user2 |-> u2, thread |-> t,
                    config1 |-> None, config2 |-> None,
                    thread2 |-> None, key1 |-> None, key2 |-> None,
                    raw |-> None, parsed |-> None] :
                   u1 \in Ids, u2 \in Ids, t \in Ids }

\* get_config for both users and the same thread name
GetConfigs ==
    /\ keyio.phase = "given"
    /\ keyio' = [keyio EXCEPT !.phase = "made",
                              !.config1 = Some(get_config(keyio.user1, keyio.thread)),
                              !.config2 = Some(get_config(keyio.user2, keyio.thread))]
    /\ UNCHANGED outsideKeys

\* parse_thread_id on the key made for the first user
ParseKey ==
    /\ keyio.phase = "made"
    /\ LET key == keyio.config1[1].configurable.thread_id
       IN  keyio' = [keyio EXCEPT !.phase = "parsed",
                                  !.raw = Some(key),
                                  !.parsed = Some(parse_thread_id(key))]
    /\ UNCHANGED outsideKeys

\* parse_thread_id on a text that no make_thread_id call produced
ParseRaw ==
    /\ keyio.phase = "made"
    /\ \E text \in Ids :
          keyio' = [keyio EXCEPT !.phase = "parsed",
                                 !.raw = Some(text),
                                 !.parsed = Some(parse_thread_id(text))]
    /\ UNCHANGED outsideKeys

\* make_thread_id for the first user and the thread name, and for the second
\* user and any thread name
MakeThreadIds ==
    /\ keyio.phase = "given"
    /\ \E thread2 \in Ids :
          keyio' = [keyio EXCEPT !.phase = "keys",
                                 !.thread2 = Some(thread2),
                                 !.key1 = Some(make_thread_id(keyio.user1, keyio.thread)),
                                 !.key2 = Some(make_thread_id(keyio.user2, thread2))]
    /\ UNCHANGED outsideKeys

KeyNext ==
    \/ MakeThreadIds
    \/ GetConfigs
    \/ ParseKey
    \/ ParseRaw

KeySpec == KeyInit /\ [][KeyNext]_vars

\* ------------------------------------------------------ conversation memory
\* (src/src/memory.py: MemoryManager; src/src/graph.py: AgenticGraph.run
\* under a run-config; src/src/main.py: run_interactive_chat)

\* users and thread names of the chat sessions
ChatUsers == { <<"a">>, <<"b">> }
ChatThreads == { <<"a">>, <<"_">> }

\* how the try block of _init_postgres_checkpointer ends: the import fails,
\* the connection string is unset, psycopg.connect raises, setup() raises,
\* or nothing fails
PostgresOutcomes ==
    { "not_installed", "no_conn_string", "connect_failed", "setup_failed", "ok" }

\* _init_postgres_checkpointer catching ImportError only
init_postgres_checkpointer_import_only(outcome) ==
    CASE outcome = "not_installed" ->
           [raised |-> FALSE, checkpointer |-> "memory", pg_connection |-> "none"]
      [] outcome = "no_conn_string" ->
           [raised |-> FALSE, checkpointer |-> "memory", pg_connection |-> "none"]
      [] outcome = "connect_failed" ->
           [raised |-> TRUE, checkpointer |-> "none", pg_connection |-> "none"]
      [] outcome = "setup_failed" ->
           [raised |-> TRUE, checkpointer |-> "postgres", pg_connection |-> "open"]
      [] OTHER ->
           [raised |-> FALSE, checkpointer |-> "postgres", pg_connection |-> "open"]

\* MemoryManager._init_postgres_checkpointer: every failure ends in
\* _init_memory_checkpointer; after a failed setup() the connection made
\* before it stays assigned
init_postgres_checkpointer(outcome) ==
    CASE outcome = "not_installed" ->
           [raised |-> FALSE, checkpointer |-> "memory", pg_connection |-> "none"]
      [] outcome = "no_conn_string" ->
           [raised |-> FALSE, checkpointer |-> "memory", pg_connection |-> "none"]
      [] outcome = "connect_failed" ->
           [raised |-> FALSE, checkpointer |-> "memory", pg_connection |-> "none"]
      [] outcome = "setup_failed" ->
           [raised |-> FALSE, checkpointer |-> "memory", pg_connection |-> "open"]
      [] OTHER ->
           [raised |-> FALSE, checkpointer |-> "postgres", pg_connection |-> "open"]

\* MemoryManager.__init__
MemoryManager_init(use_postgres, outcome) ==
    IF use_postgres
    THEN init_postgres_checkpointer(outcome)
    ELSE [raised |-> FALSE, checkpointer |-> "memory", pg_connection |-> "none"]

\* TRUE iff the user's list holds a thread of that name
Registered(cache, user_id, thread_id) ==
    \E i \in 1..Len(cache[user_id]) : cache[user_id][i].thread_id = thread_id

\* register_thread without the duplicate test
register_thread_always_appends(cache, user_id, thread_id, now) ==
    [cache EXCEPT ![user_id] =
        Append(@, [thread_id |-> thread_id, user_id |-> user_id,
                   created_at |-> now])]

\* MemoryManager.register_thread on _threads_cache; a user without a list
\* has the empty one
register_thread(cache, user_id, thread_id, now) ==
    IF Registered(cache, user_id, thread_id)
    THEN cache
    ELSE [cache EXCEPT ![user_id] =
            Append(@, [thread_id |-> thread_id, user_id |-> user_id,
                       created_at |-> now])]

\* the thread keys the sessions can address
ChatKeys == { make_thread_id(u, t) : u \in ChatUsers, t \in ChatThreads }

\* graph.invoke(initial_state, config): the thread's checkpointed messages
\* take the input's messages through the add_messages reducer
invoke_messages(saved, input) == saved \o input

\* the memory manager is about to be constructed
MemoryInit ==
    /\ GraphInit
    /\ config = None
    /\ chat = None
    /\ keyio = None
    /\ registry = None
    /\ reader = None
    /\ loader = None
    /\ agent = None
    /\ cli = None
    /\ conv = None
    /\ memory = [ phase |-> "new",
                  use_postgres |-> FALSE,
                  outcome |-> "ok",
                  checkpointer |-> "none",
                  pg_connection |-> "none",
                  threads_cache |-> [u \in ChatUsers |-> <<>>],
                  clock |-> 0,
                  lastReg |-> None,
                  store |-> [k \in ChatKeys |-> <<>>],
                  turns |-> 0,
                  last |-> None ]

\* MemoryManager(use_postgres=settings.use_postgres_memory)
Construct ==
    /\ memory.phase = "new"
    /\ \E use_postgres \in BOOLEAN :
       \E outcome \in IF use_postgres THEN PostgresOutcomes ELSE {"ok"} :
          LET made == MemoryManager_init(use_postgres, outcome)
          IN  memory' = [memory EXCEPT
                           !.phase = IF made.raised THEN "failed" ELSE "ready",
                           !.use_postgres = use_postgres,
                           !.outcome = outcome,
                           !.checkpointer = made.checkpointer,
                           !.pg_connection = made.pg_connection]
    /\ UNCHANGED outsideMemory

\* memory.register_thread(user_id, thread_id)
RegisterThread ==
    /\ memory.phase = "ready"
    /\ memory.clock < MaxClock
    /\ \E u \in ChatUsers, t \in ChatThreads :
          memory' = [memory EXCEPT
                       !.clock = @ + 1,
                       !.lastReg = Some(<<u, t>>),
                       !.threads_cache =
                           register_thread(@, u, t, memory.clock + 1)]
    /\ UNCHANGED outsideMemory

\* graph.run(question, config) for a registered thread: invoke leaves the
\* thread's checkpoint behind, then run appends the assistant turn to the
\* state it returns
ChatRun ==
    /\ memory.phase = "ready"
    /\ memory.turns < MaxTurns
    /\ \E u \in ChatUsers, t \in ChatThreads, question \in Questions,
          answer \in {None} \cup { Some(a) : a \in Answers } :
          /\ Registered(memory.threads_cache, u, t)
          /\ LET key == get_config(u, t).configurable.thread_id
                 input == InitialState(question).messages
                 final_state == [messages |-> invoke_messages(memory.store[key], input),
                                 answer |-> answer]
             IN  memory' = [memory EXCEPT
                              !.turns = @ + 1,
                              !.store = [@ EXCEPT ![key] = final_state.messages],
                              !.last = Some([key |-> key,
                                             question |-> question,
                                             answer |-> answer,
                                             before |-> memory.store[key],
                                             returned |-> run_return(final_state).messages])]
    /\ UNCHANGED outsideMemory

MemoryNext ==
    \/ Construct
    \/ RegisterThread
    \/ ChatRun

MemorySpec == MemoryInit /\ [][MemoryNext]_vars

\* ---------------------------------------------------------- schema registry
\* (src/src/schema_manager.py: SchemaManager; src/src/main.py: its callers)

TableNames == { "t1", "t2" }
ColumnNames == { "a", "b" }

\* Python's string order on the names in use
NameRank == ("a" :> 1) @@ ("b" :> 2) @@ ("t1" :> 3) @@ ("t2" :> 4) @@ ("t3" :> 5)

\* sorted(list(S))
RECURSIVE Sorted(_)
Sorted(S) ==
    IF S = {} THEN <<>>
    ELSE LET least == CHOOSE x \in S : \A y \in S : NameRank[x] <= NameRank[y]
         IN  <<least>> \o Sorted(S \ {least})

Range(s) == { s[i] : i \in 1..Len(s) }

\* a column entry as load_excel_files builds it for a column without metadata
ColumnInfo(name) == [name |-> name, type |-> "STRING", description |-> None]

\* the column lists of a created table: at least one column, no name twice
ColumnLists ==
    { [i \in 1..Len(names) |-> ColumnInfo(names[i])] :
        names \in { s \in UNION { [1..n -> ColumnNames] : n \in 1..MaxCols } :
                      \A i, j \in 1..Len(s) : s[i] = s[j] => i = j } }

\* the mappings load_excel_files can return
TableSchemas == UNION { [D -> ColumnLists] : D \in SUBSET TableNames }

\* the names of a column list
NamesOf(columns) == { columns[i].name : i \in 1..Len(columns) }

\* _detect_relationships selecting every counted name
detect_relationships_count_at_least_one(schemas) ==
    LET column_counts(name) ==
            Cardinality({ e \in UNION { {t} \X (1..Len(schemas[t])) : t \in DOMAIN schemas } :
                            schemas[e[1]][e[2]].name = name })
    IN  { name \in UNION { NamesOf(schemas[t]) : t \in DOMAIN schemas } :
            column_counts(name) >= 1 }

\* SchemaManager._detect_relationships: a Counter over every column entry
\* of every table, names counted more than once
detect_relationships(schemas) ==
    LET column_counts(name) ==
            Cardinality({ e \in UNION { {t} \X (1..Len(schemas[t])) : t \in DOMAIN schemas } :
                            schemas[e[1]][e[2]].name = name })
    IN  { name \in UNION { NamesOf(schemas[t]) : t \in DOMAIN schemas } :
            column_counts(name) > 1 }

\* SchemaManager.update: dict.update, then _detect_relationships
update(reg, schemas) ==
    LET merged == [t \in DOMAIN reg.schemas \cup DOMAIN schemas |->
                     IF t \in DOMAIN schemas THEN schemas[t] ELSE reg.schemas[t]]
    IN  [reg EXCEPT !.schemas = merged,
                    !.shared_columns = detect_relationships(merged)]

\* the (table, column) places describe() tags with [SHARED KEY]
SharedKeyTags(reg) ==
    { e \in UNION { {t} \X NamesOf(reg.schemas[t]) : t \in DOMAIN reg.schemas } :
        e[2] \in reg.shared_columns }

\* JSON values
JNull == [j |-> "null"]
JStr(s) == [j |-> "string", s |-> s]
JBool(b) == [j |-> "bool", b |-> b]
JArr(items) == [j |-> "array", items |-> items]
JObj(pairs) == [j |-> "object", pairs |-> pairs]

\* json.dump of one column entry
dump_column(col) ==
    JObj(<< <<"name", JStr(col.name)>>,
            <<"type", JStr(col.type)>>,
            <<"description", IF col.description = None THEN JNull
                             ELSE JStr(col.description[1])>> >>)

\* json.dump of the table mapping, each table's columns written in name order
dump_tables_sorted_columns(schemas) ==
    LET names == Sorted(DOMAIN schemas)
    IN  JObj([i \in 1..Len(names) |->
                <<names[i],
                  JArr(LET cols == Sorted(NamesOf(schemas[names[i]]))
                       IN  [k \in 1..Len(cols) |->
                              dump_column(CHOOSE c \in Range(schemas[names[i]]) :
                                              c.name = cols[k])])>>])

\* json.dump of the table mapping: one member per table, its columns in
\* list order
dump_tables(schemas) ==
    LET names == Sorted(DOMAIN schemas)
    IN  JObj([i \in 1..Len(names) |->
                <<names[i],
                  JArr([k \in 1..Len(schemas[names[i]]) |->
                          dump_column(schemas[names[i]][k])])>>])

\* save_to_file's relationships list: the table pairs with common columns
Relationships(schemas) ==
    LET names == Sorted(DOMAIN schemas)
        n == Len(names)
        pairs == [k \in 1..(n * n) |-> <<((k - 1) \div n) + 1, ((k - 1) % n) + 1>>]
        common(p) == NamesOf(schemas[names[p[1]]]) \cap NamesOf(schemas[names[p[2]]])
        linked(p) == p[1] < p[2] /\ common(p) # {}
        kept == SelectSeq(pairs, linked)
    IN  [k \in 1..Len(kept) |->
           JObj(<< <<"table_a", JStr(names[kept[k][1]])>>,
                   <<"table_b", JStr(names[kept[k][2]])>>,
                   <<"shared_columns",
                     JArr(LET s == Sorted(common(kept[k]))
                          IN  [i \in 1..Len(s) |-> JStr(s[i])])>> >>)]

\* SchemaManager.save_to_file: the document written to the path
save_to_file(reg) ==
    JObj(<< <<"tables", dump_tables(reg.schemas)>>,
            <<"relationships", JArr(Relationships(reg.schemas))>>,
            <<"shared_columns",
              JArr(LET s == Sorted(reg.shared_columns)
                   IN  [i \in 1..Len(s) |-> JStr(s[i])])>>,
            <<"generated_at", JStr("now")>> >>)

\* json.load: objects become dicts (the last member of a name wins), arrays
\* lists, strings strings, null None
RECURSIVE loads(_)
loads(v) ==
    CASE v.j = "null" -> None
      [] v.j = "string" -> v.s
      [] v.j = "bool" -> v.b
      [] v.j = "array" -> [i \in 1..Len(v.items) |-> loads(v.items[i])]
      [] OTHER ->
           [k \in { v.pairs[i][1] : i \in 1..Len(v.pairs) } |->
              LET last == CHOOSE i \in 1..Len(v.pairs) :
                              /\ v.pairs[i][1] = k
                              /\ \A m \in 1..Len(v.pairs) : v.pairs[m][1] = k => m <= i
              IN  loads(v.pairs[last][2])]

\* the file at the schema path: absent, not JSON, or a JSON document;
\* origin remembers the registry contents a save wrote it from
AbsentFile == [state |-> "absent", doc |-> JNull, origin |-> None]
MalformedFile == [state |-> "malformed", doc |-> JNull, origin |-> None]
JsonFile(doc) == [state |-> "json", doc |-> doc, origin |-> None]

\* SchemaManager.load_from_file: the returned value with the registry
\* contents it leaves
load_from_file(reg, file) ==
    CASE file.state = "absent" -> [returned |-> "False", reg |-> reg]
      [] file.state = "malformed" -> [returned |-> "False", reg |-> reg]
      [] file.doc.j # "object" -> [returned |-> "raised", reg |-> reg]
      [] OTHER ->
           LET data == loads(file.doc)
               tables == IF "tables" \in DOMAIN data THEN data["tables"] ELSE <<>>
               shared == IF "shared_columns" \in DOMAIN data
                         THEN data["shared_columns"] ELSE <<>>
           IN  [returned |-> "True",
                reg |-> [reg EXCEPT !.schemas = tables,
                                    !.shared_columns = Range(shared)]]

\* files put at the schema path by hand: none, one that is not JSON, a JSON
\* array, and objects with or without the tables and shared_columns members
HandFiles ==
    LET tables == dump_tables(("t1" :> <<ColumnInfo("a")>>) @@ ("t2" :> <<ColumnInfo("a")>>))
    IN  { AbsentFile, MalformedFile, JsonFile(JArr(<<>>)) }
        \cup { JsonFile(JObj(t \o s)) :
                 t \in { <<>>, << <<"tables", tables>> >> },
                 s \in { <<>>,
                         << <<"shared_columns", JArr(<<>>)>> >>,
                         << <<"shared_columns", JArr(<<JStr("b")>>)>> >> } }

\* SchemaManager.__init__
NewRegistry == [schemas |-> <<>>, shared_columns |-> {}, loaded |-> FALSE]

Contents(reg) == [schemas |-> reg.schemas, shared_columns |-> reg.shared_columns]

\* what the last call was: its name, its argument, what it returned, and
\* for a load whether the registry was empty before it
Called(op, arg, returned, fresh) ==
    [op |-> op, arg |-> arg, returned |-> returned, fresh |-> fresh]

RegistryInit ==
    /\ GraphInit
    /\ config = None
    /\ chat = None
    /\ keyio = None
    /\ memory = None
    /\ reader = None
    /\ loader = None
    /\ agent = None
    /\ cli = None
    /\ conv = None
    /\ registry = [reg |-> NewRegistry,
                   file |-> AbsentFile,
                   last |-> Called("new", <<>>, "None", FALSE)]

\* SchemaManager()
NewSchemaManager ==
    /\ registry' = [registry EXCEPT !.reg = NewRegistry,
                                    !.last = Called("new", <<>>, "None", FALSE)]
    /\ UNCHANGED outsideRegistry

\* schema_manager.update(schemas)
Update ==
    /\ \E schemas \in TableSchemas :
          registry' = [registry EXCEPT
                         !.reg = update(@, schemas),
                         !.last = Called("update", schemas, "None", FALSE)]
    /\ UNCHANGED outsideRegistry

\* schema_manager.save_to_file(settings.schema_path)
SaveToFile ==
    /\ registry' = [registry EXCEPT
                      !.file = [state |-> "json",
                                doc |-> save_to_file(registry.reg),
                                origin |-> Some(Contents(registry.reg))],
                      !.last = Called("save", <<>>, "None", FALSE)]
    /\ UNCHANGED outsideRegistry

\* schema_manager.load_from_file(settings.schema_path)
LoadFromFile ==
    /\ LET loaded == load_from_file(registry.reg, registry.file)
       IN  registry' = [registry EXCEPT
                          !.reg = [loaded.reg EXCEPT
                                     !.loaded = @ \/ loaded.returned = "True"],
                          !.last = Called("load", <<>>, loaded.returned,
                                          Contents(registry.reg) = Contents(NewRegistry))]
    /\ UNCHANGED outsideRegistry

\* the file at the schema path is edited, replaced or removed
WriteFile ==
    /\ \E file \in HandFiles :
          registry' = [registry EXCEPT !.file = file,
                                       !.last = Called("write", <<>>, "None", FALSE)]
    /\ UNCHANGED outsideRegistry

RegistryNext ==
    \/ NewSchemaManager
    \/ Update
    \/ SaveToFile
    \/ LoadFromFile
    \/ WriteFile

RegistrySpec == RegistryInit /\ [][RegistryNext]_vars

\* ------------------------------------------------- reading the schema registry
\* (src/src/schema_manager.py: describe, _build_relationship_map, get,
\* get_columns). A text is the sequence of the pieces it is formatted from.

\* sep.join(parts)
RECURSIVE Join(_, _)
Join(parts, sep) ==
    IF parts = <<>> THEN <<>>
    ELSE IF Len(parts) = 1 THEN parts[1]
    ELSE parts[1] \o sep \o Join(Tail(parts), sep)

\* the index pairs (i, j), i < j, of range(n) in loop order
IndexPairs(n) ==
    LET all == [k \in 1..(n * n) |-> <<((k - 1) \div n) + 1, ((k - 1) % n) + 1>>]
        ordered(p) == p[1] < p[2]
    IN  SelectSeq(all, ordered)

RelationshipsHeader == "\n\nDetected Relationships:\n"

\* SchemaManager._build_relationship_map
build_relationship_map(reg) ==
    IF reg.schemas = <<>> \/ Cardinality(DOMAIN reg.schemas) < 2 THEN <<>>
    ELSE LET table_names == Sorted(DOMAIN reg.schemas)
             pairs == IndexPairs(Len(table_names))
             common(p) == NamesOf(reg.schemas[table_names[p[1]]])
                            \cap NamesOf(reg.schemas[table_names[p[2]]])
             linked(p) == common(p) # {}
             kept == SelectSeq(pairs, linked)
             relationships ==
                 [k \in 1..Len(kept) |->
                    <<"- ", table_names[kept[k][1]], " and ", table_names[kept[k][2]],
                      " are linked by: ">>
                    \o Join(LET s == Sorted(common(kept[k]))
                            IN  [i \in 1..Len(s) |-> <<s[i]>>], <<", ">>)]
         IN  IF relationships = <<>> THEN <<>>
             ELSE <<RelationshipsHeader>> \o Join(relationships, <<"\n">>)

\* describe tagging by the table's own column names instead of the shared set
describe_tags_every_column(reg) ==
    IF reg.schemas = <<>> THEN <<"No tables loaded.">>
    ELSE LET tables == Sorted(DOMAIN reg.schemas)
             col_str(col) ==
                 <<col.name, " (", col.type, ")">>
                 \o (IF col.name \in ColumnNames THEN <<" [SHARED KEY]">> ELSE <<>>)
                 \o (IF Truthy(col.description) THEN <<": ", col.description[1]>> ELSE <<>>)
             part(table) ==
                 <<table, " (">>
                 \o Join([k \in 1..Len(reg.schemas[table]) |-> col_str(reg.schemas[table][k])],
                         <<", ">>)
                 \o <<")">>
         IN  Join([i \in 1..Len(tables) |-> part(tables[i])], <<"; ">>)
             \o build_relationship_map(reg)

\* SchemaManager.describe
describe(reg) ==
    IF reg.schemas = <<>> THEN <<"No tables loaded.">>
    ELSE LET tables == Sorted(DOMAIN reg.schemas)
             col_str(col) ==
                 <<col.name, " (", col.type, ")">>
                 \o (IF col.name \in reg.shared_columns THEN <<" [SHARED KEY]">> ELSE <<>>)
                 \o (IF Truthy(col.description) THEN <<": ", col.description[1]>> ELSE <<>>)
             part(table) ==
                 <<table, " (">>
                 \o Join([k \in 1..Len(reg.schemas[table]) |-> col_str(reg.schemas[table][k])],
                         <<", ">>)
                 \o <<")">>
         IN  Join([i \in 1..Len(tables) |-> part(tables[i])], <<"; ">>)
             \o build_relationship_map(reg)

\* the tables of the registry that is read
ReaderTables == { "t1", "t2", "t3" }

\* the list objects: the one made for each table, and one the caller makes
ListIds == ReaderTables \cup { "new" }

\* the registry contents as values: each table with the items of its list
Resolved(r) ==
    [schemas |-> [t \in DOMAIN r.schemas |-> r.heap[r.schemas[t]]],
     shared_columns |-> r.shared_columns]

\* SchemaManager.get: dict(self._schemas), a new dict holding the same
\* list objects
get(r) == [t \in DOMAIN r.schemas |-> r.schemas[t]]

\* SchemaManager.get_columns: the table's list object, or a new empty list
get_columns(r, table_name) ==
    IF table_name \in DOMAIN r.schemas THEN r.heap[r.schemas[table_name]] ELSE <<>>

\* what a caller sees through get, get_columns and describe
Observed(r) ==
    [get |-> Resolved(r).schemas,
     get_columns |-> [t \in ReaderTables |-> get_columns(r, t)],
     describe |-> describe(Resolved(r))]

\* a registry with some tables and some shared-column set is given
ReaderInit ==
    /\ GraphInit
    /\ config = None
    /\ chat = None
    /\ keyio = None
    /\ memory = None
    /\ registry = None
    /\ loader = None
    /\ agent = None
    /\ cli = None
    /\ conv = None
    /\ \E D \in SUBSET ReaderTables, shared \in SUBSET ColumnNames :
       \E lists \in [D -> ColumnLists] :
          reader = [heap |-> [id \in ListIds |->
                                IF id \in D THEN lists[id] ELSE <<>>],
                    schemas |-> [t \in D |-> t],
                    shared_columns |-> shared,
                    described |-> None,
                    held |-> None,
                    seen |-> None,
                    edits |-> 0]

\* schema_manager.describe()
Describe ==
    /\ reader.described = None
    /\ reader' = [reader EXCEPT
                    !.described = Some([reg |-> Resolved(reader),
                                        text |-> describe(Resolved(reader))])]
    /\ UNCHANGED outsideReader

\* a caller takes schema_manager.get(), having looked at the registry
Get ==
    /\ reader.held = None
    /\ reader' = [reader EXCEPT !.held = Some(get(reader)),
                                !.seen = Some(Observed(reader))]
    /\ UNCHANGED outsideReader

\* the caller puts a list of its own under a table name of its mapping
CallerSetsEntry ==
    /\ reader.held # None
    /\ reader.edits < MaxEdits
    /\ \E t \in ReaderTables :
          reader' = [reader EXCEPT
                       !.edits = @ + 1,
                       !.heap = [@ EXCEPT !["new"] = <<ColumnInfo("b")>>],
                       !.held = Some([k \in DOMAIN reader.held[1] \cup {t} |->
                                        IF k = t THEN "new" ELSE reader.held[1][k]])]
    /\ UNCHANGED outsideReader

\* the caller deletes a table entry of its mapping
CallerDeletesEntry ==
    /\ reader.held # None
    /\ reader.edits < MaxEdits
    /\ \E t \in DOMAIN reader.held[1] :
          reader' = [reader EXCEPT
                       !.edits = @ + 1,
                       !.held = Some([k \in DOMAIN reader.held[1] \ {t} |->
                                        reader.held[1][k]])]
    /\ UNCHANGED outsideReader

\* the caller appends a column to a list of its mapping
CallerAppendsColumn ==
    /\ reader.held # None
    /\ reader.edits < MaxEdits
    /\ \E t \in DOMAIN reader.held[1], name \in ColumnNames :
          reader' = [reader EXCEPT
                       !.edits = @ + 1,
                       !.heap = [@ EXCEPT ![reader.held[1][t]] =
                                    Append(@, ColumnInfo(name))]]
    /\ UNCHANGED outsideReader

\* the caller removes a column from a list of its mapping
CallerRemovesColumn ==
    /\ reader.held # None
    /\ reader.edits < MaxEdits
    /\ \E t \in DOMAIN reader.held[1] :
       \E i \in 1..Len(reader.heap[reader.held[1][t]]) :
          reader' = [reader EXCEPT
                       !.edits = @ + 1,
                       !.heap = [@ EXCEPT ![reader.held[1][t]] =
                                    SubSeq(@, 1, i - 1) \o SubSeq(@, i + 1, Len(@))]]
    /\ UNCHANGED outsideReader

\* the caller renames a column entry of a list of its mapping
CallerEditsColumn ==
    /\ reader.held # None
    /\ reader.edits < MaxEdits
    /\ \E t \in DOMAIN reader.held[1], name \in ColumnNames :
       \E i \in 1..Len(reader.heap[reader.held[1][t]]) :
          /\ reader.heap[reader.held[1][t]][i].name # name
          /\ reader' = [reader EXCEPT
                          !.edits = @ + 1,
                          !.heap = [@ EXCEPT ![reader.held[1][t]][i].name = name]]
    /\ UNCHANGED outsideReader

ReaderNext ==
    \/ Describe
    \/ Get
    \/ CallerSetsEntry
    \/ CallerDeletesEntry
    \/ CallerAppendsColumn
    \/ CallerRemovesColumn
    \/ CallerEditsColumn

ReaderSpec == ReaderInit /\ [][ReaderNext]_vars

\* ------------------------------------------------- conversions of the loader
\* (src/src/data_loader.py: map_excel_type_to_duckdb, and the table name
\* load_excel_files derives from a workbook and a sheet). Strings are
\* sequences of characters here.

Digits == { "0", "1", "2", "3", "4", "5", "6", "7", "8", "9" }
Whitespace == { " ", "\t", "\n" }

\* str.lower() on one character
LowerChar(c) ==
    IF \E i \in 1..26 : UpperCase[i] = c
    THEN LowerCase[CHOOSE i \in 1..26 : UpperCase[i] = c]
    ELSE c

\* str.lower()
Lower(text) == [i \in 1..Len(text) |-> LowerChar(text[i])]

\* str.isalnum() on one character
isalnum(c) ==
    \/ \E i \in 1..26 : LowerCase[i] = c \/ UpperCase[i] = c
    \/ c \in Digits

\* str.replace(old, new) for a one-character old
replace(text, old, new) == [i \in 1..Len(text) |-> IF text[i] = old THEN new ELSE text[i]]

\* the table name without the final pass over the characters
table_name_replace_only(stem, sheet) ==
    LET raw_name == replace(replace(Lower(stem \o <<"_">> \o sheet), " ", "_"), "-", "_")
    IN  raw_name

\* load_excel_files: raw_name and table_name of a sheet
table_name(stem, sheet) ==
    LET raw_name == replace(replace(Lower(stem \o <<"_">> \o sheet), " ", "_"), "-", "_")
    IN  [i \in 1..Len(raw_name) |->
           IF isalnum(raw_name[i]) \/ raw_name[i] = "_" THEN raw_name[i] ELSE "_"]

\* str.strip()
RECURSIVE strip(_)
strip(text) ==
    IF text = <<>> THEN text
    ELSE IF text[1] \in Whitespace THEN strip(Tail(text))
    ELSE IF text[Len(text)] \in Whitespace THEN strip(SubSeq(text, 1, Len(text) - 1))
    ELSE text

\* the mapping dict of map_excel_type_to_duckdb
mapping ==
    (<<"S","T","R","I","N","G">> :> "VARCHAR")
    @@ (<<"T","E","X","T">> :> "VARCHAR")
    @@ (<<"S","T","R">> :> "VARCHAR")
    @@ (<<"I","N","T","E","G","E","R">> :> "INTEGER")
    @@ (<<"I","N","T">> :> "INTEGER")
    @@ (<<"F","L","O","A","T">> :> "DOUBLE")
    @@ (<<"D","O","U","B","L","E">> :> "DOUBLE")
    @@ (<<"N","U","M","E","R","I","C">> :> "DOUBLE")
    @@ (<<"B","O","O","L","E","A","N">> :> "BOOLEAN")
    @@ (<<"B","O","O","L">> :> "BOOLEAN")
    @@ (<<"T","I","M","E","S","T","A","M","P">> :> "TIMESTAMP")
    @@ (<<"D","A","T","E","T","I","M","E">> :> "TIMESTAMP")
    @@ (<<"D","A","T","E">> :> "DATE")

\* map_excel_type_to_duckdb looking the label up as it was given
map_excel_type_to_duckdb_as_given(excel_type) ==
    IF ~Truthy(excel_type) THEN "VARCHAR"
    ELSE LET t == excel_type[1]
         IN  IF t \in DOMAIN mapping THEN mapping[t] ELSE "VARCHAR"

\* map_excel_type_to_duckdb; the argument is None or a string
map_excel_type_to_duckdb(excel_type) ==
    IF ~Truthy(excel_type) THEN "VARCHAR"
    ELSE LET t == strip(Upper(excel_type[1]))
         IN  IF t \in DOMAIN mapping THEN mapping[t] ELSE "VARCHAR"

\* the characters of workbook stems and sheet names
NameChars == { "A", "1", " ", "-", ".", "_" }
Names == UNION { [1..n -> NameChars] : n \in 1..MaxNameLen }

\* workbook Sales Q1.xlsx with sheet Region Data
SalesQ1 == <<"S","a","l","e","s"," ","Q","1">>
RegionData == <<"R","e","g","i","o","n"," ","D","a","t","a">>

\* labels the mapping does not know
UnknownLabels == { <<"B","L","O","B">>, <<"I","N"," ","T">>, <<"D","A","T","E","S">> }

\* a label in upper case, in lower case, and capitalised
Casings(label) ==
    { label, Lower(label), <<label[1]>> \o Lower(Tail(label)) }

\* a string with whitespace around it
Paddings(text) ==
    { l \o text \o r : l \in { <<>>, <<" ">>, <<"\t", " ">> },
                       r \in { <<>>, <<" ">>, <<" ", "\n">> } }

\* a workbook stem with a sheet name, or a type string, is given
ConvInit ==
    /\ GraphInit
    /\ config = None
    /\ chat = None
    /\ keyio = None
    /\ memory = None
    /\ registry = None
    /\ reader = None
    /\ loader = None
    /\ agent = None
    /\ cli = None
    /\ \/ \E stem \in Names \cup {SalesQ1}, sheet \in Names \cup {RegionData} :
             conv = [fn |-> "table_name", stem |-> stem, sheet |-> sheet, out |-> None]
       \/ \E label \in DOMAIN mapping \cup UnknownLabels :
          \E casing \in Casings(label) :
          \E text \in Paddings(casing) :
             conv = [fn |-> "map_excel_type_to_duckdb", label |-> Some(label),
                     excel_type |-> Some(text), out |-> None]
       \/ \E excel_type \in { None, Some(<<>>), Some(<<" ">>) } :
             conv = [fn |-> "map_excel_type_to_duckdb", label |-> None,
                     excel_type |-> excel_type, out |-> None]

\* load_excel_files names the table of a sheet
NameTable ==
    /\ conv.fn = "table_name"
    /\ conv.out = None
    /\ conv' = [conv EXCEPT !.out = Some(table_name(conv.stem, conv.sheet))]
    /\ UNCHANGED outsideConv

\* map_excel_type_to_duckdb(c_type)
MapType ==
    /\ conv.fn = "map_excel_type_to_duckdb"
    /\ conv.out = None
    /\ conv' = [conv EXCEPT !.out = Some(map_excel_type_to_duckdb(conv.excel_type))]
    /\ UNCHANGED outsideConv

ConvNext ==
    \/ NameTable
    \/ MapType

ConvSpec == ConvInit /\ [][ConvNext]_vars

\* ------------------------------------------------------------------ ingestion
\* (src/src/data_loader.py: load_excel_files). A sheet is known by its place
\* <<workbook index, sheet index>> in the directory.

Stems == { <<"w">>, <<"v">> }
SheetNames == { <<"d">>, <<"d", "_">>, <<"d", "-">> }

\* the sheet lists of a workbook: no sheet name twice
SheetLists ==
    { s \in UNION { [1..n -> SheetNames] : n \in 1..MaxSheets } :
        \A i, j \in 1..Len(s) : s[i] = s[j] => i = j }

Workbooks == [stem : Stems, sheets : SheetLists]

\* what data_path.glob("*.xlsx") can list: files of different stems, in any
\* order
Directories ==
    { d \in UNION { [1..n -> Workbooks] : n \in 0..Cardinality(Stems) } :
        \A i, j \in 1..Len(d) : d[i].stem = d[j].stem => i = j }

\* every exception is taken for a fatal one except a workbook's
handled_workbook_only(site) == site = "workbook"

\* the try blocks of load_excel_files: around a workbook, around a sheet,
\* around a table
handled(site) == site \in { "workbook", "sheet", "table" }

\* no sheet is taken for a metadata sheet
is_metadata_sheet_never(name) == FALSE

\* table_name.endswith('_')
is_metadata_sheet(name) == name[Len(name)] = "_"

\* the table name of the sheet at a place
NameAt(dir, place) == table_name(dir[place[1]].stem, dir[place[1]].sheets[place[2]])

\* the column entries built for a table: the type comes from the metadata
\* sheet when one is found
table_columns(meta) ==
    << [name |-> "c",
        type |-> IF meta = None THEN "STRING" ELSE "INT",
        description |-> None] >>

\* the place after a sheet or a workbook in the scan
NextPlace(l, skip_workbook) ==
    IF ~skip_workbook /\ l.s < Len(l.dir[l.w].sheets)
    THEN [l EXCEPT !.s = @ + 1]
    ELSE [l EXCEPT !.w = @ + 1, !.s = 0,
                   !.phase = IF l.w + 1 > Len(l.dir) THEN "process" ELSE "scan"]

\* load_excel_files(con) is called on a directory
LoaderInit ==
    /\ GraphInit
    /\ config = None
    /\ chat = None
    /\ keyio = None
    /\ memory = None
    /\ registry = None
    /\ reader = None
    /\ agent = None
    /\ cli = None
    /\ conv = None
    /\ \E dir \in Directories :
          loader = [dir |-> dir,
                    phase |-> "scan",
                    w |-> 1,
                    s |-> 0,
                    fate |-> <<>>,
                    data_tables |-> <<>>,
                    metadata_dfs |-> <<>>,
                    t |-> 1,
                    attempts |-> <<>>,
                    database |-> <<>>,
                    views |-> {},
                    schema |-> <<>>]

\* if not excel_files: return {}
NoExcelFiles ==
    /\ loader.phase = "scan"
    /\ loader.dir = <<>>
    /\ loader' = [loader EXCEPT !.phase = "returned"]
    /\ UNCHANGED outsideLoader

\* xl = pd.ExcelFile(workbook)
OpenWorkbook ==
    /\ loader.phase = "scan"
    /\ loader.dir # <<>>
    /\ loader.s = 0
    /\ \E opened \in BOOLEAN :
          loader' =
              IF opened THEN [loader EXCEPT !.s = 1]
              ELSE IF handled("workbook")
              THEN [NextPlace(loader, TRUE) EXCEPT
                      !.fate = [p \in DOMAIN loader.fate
                                        \cup { <<loader.w, i>> :
                                                 i \in 1..Len(loader.dir[loader.w].sheets) } |->
                                  IF p \in DOMAIN loader.fate THEN loader.fate[p]
                                  ELSE "unread"]]
              ELSE [loader EXCEPT !.phase = "aborted"]
    /\ UNCHANGED outsideLoader

\* one pass of the loop over xl.sheet_names
ScanSheet ==
    /\ loader.phase = "scan"
    /\ loader.s > 0
    /\ \E outcome \in { "raised", "empty", "read" } :
          LET place == <<loader.w, loader.s>>
              name == NameAt(loader.dir, place)
              kind == IF outcome # "read" THEN outcome
                      ELSE IF is_metadata_sheet(name) THEN "metadata" ELSE "data"
              noted == [NextPlace(loader, FALSE) EXCEPT
                          !.fate = [p \in DOMAIN loader.fate \cup {place} |->
                                      IF p = place THEN kind ELSE loader.fate[p]]]
          IN  loader' =
                  IF outcome = "raised" /\ ~handled("sheet")
                  THEN [loader EXCEPT !.phase = "aborted"]
                  ELSE IF kind = "metadata"
                  THEN [noted EXCEPT
                          !.metadata_dfs = [n \in DOMAIN loader.metadata_dfs \cup {name} |->
                                              IF n = name THEN place
                                              ELSE loader.metadata_dfs[n]]]
                  ELSE IF kind = "data"
                  THEN [noted EXCEPT
                          !.data_tables = Append(@, [table_name |-> name, df |-> place])]
                  ELSE noted
    /\ UNCHANGED outsideLoader

\* one pass of the loop over data_tables; views holds the tables whose
\* temporary view tmp_<table> is registered on the connection
ProcessTable ==
    /\ loader.phase = "process"
    /\ loader.t <= Len(loader.data_tables)
    /\ \E outcome \in { "raised before register", "raised in execute", "created" } :
          LET table == loader.data_tables[loader.t]
              created == outcome = "created"
              metadata_name == table.table_name \o <<"_">>
              meta == IF metadata_name \in DOMAIN loader.metadata_dfs
                      THEN Some(loader.metadata_dfs[metadata_name]) ELSE None
              tried == [loader EXCEPT
                          !.t = @ + 1,
                          !.attempts = Append(@, [table_name |-> table.table_name,
                                                  df |-> table.df,
                                                  meta |-> meta,
                                                  created |-> created])]
          IN  loader' =
                  IF created
                  THEN [tried EXCEPT
                          !.database = [n \in DOMAIN loader.database \cup {table.table_name} |->
                                          IF n = table.table_name THEN table.df
                                          ELSE loader.database[n]],
                          !.schema = [n \in DOMAIN loader.schema \cup {table.table_name} |->
                                        IF n = table.table_name THEN table_columns(meta)
                                        ELSE loader.schema[n]]]
                  ELSE IF handled("table")
                  THEN [tried EXCEPT
                          !.views = IF outcome = "raised in execute"
                                    THEN @ \cup {table.table_name} ELSE @]
                  ELSE [loader EXCEPT !.phase = "aborted"]
    /\ UNCHANGED outsideLoader

\* return schema
ReturnSchema ==
    /\ loader.phase = "process"
    /\ loader.t > Len(loader.data_tables)
    /\ loader' = [loader EXCEPT !.phase = "returned"]
    /\ UNCHANGED outsideLoader

LoaderNext ==
    \/ NoExcelFiles
    \/ OpenWorkbook
    \/ ScanSheet
    \/ ProcessTable
    \/ ReturnSchema

LoaderSpec == LoaderInit /\ [][LoaderNext]_vars

\* ------------------------------------------------------ the supervisor agent
\* (src/src/agents.py: verify_query, detect_complexity, synthesize_answer).
\* A reply of the model is a sequence of pieces: text pieces (code fences
\* and whitespace among them) and JSON documents.

Text(s) == [j |-> "text", s |-> s]

\* the markdown code fence of three backquotes, bare and followed by json
Fence == "[fence]"
FenceJson == "[fence]json"

IsText(piece, s) == piece.j = "text" /\ piece.s = s
IsBlank(piece) == piece.j = "text" /\ piece.s \in Whitespace

\* str.strip() on a reply
RECURSIVE strip_reply(_)
strip_reply(content) ==
    IF content = <<>> THEN content
    ELSE IF IsBlank(content[1]) THEN strip_reply(Tail(content))
    ELSE IF IsBlank(content[Len(content)])
         THEN strip_reply(SubSeq(content, 1, Len(content) - 1))
    ELSE content

\* the clean-up of markdown fences both parsers do on the stripped reply
strip_fences(content) ==
    LET c1 == IF content # <<>> /\ IsText(content[1], FenceJson) THEN Tail(content)
              ELSE content
        c2 == IF c1 # <<>> /\ IsText(c1[1], Fence) THEN Tail(c1) ELSE c1
    IN  IF c2 # <<>> /\ IsText(c2[Len(c2)], Fence)
        THEN SubSeq(c2, 1, Len(c2) - 1) ELSE c2

\* json.loads: one JSON document with whitespace around it, or a
\* JSONDecodeError
json_loads(content) ==
    LET c == strip_reply(content)
    IN  IF Len(c) = 1 /\ c[1].j # "text"
        THEN [ok |-> TRUE, doc |-> c[1]]
        ELSE [ok |-> FALSE, doc |-> JNull]

JSONDecodeError == <<"Expecting value">>

\* TRUE iff a JSON object has a member of that name
HasMember(doc, name) == \E i \in 1..Len(doc.pairs) : doc.pairs[i][1] = name

\* the value of a member of a JSON object
Member(doc, name) ==
    doc.pairs[CHOOSE i \in 1..Len(doc.pairs) :
                 /\ doc.pairs[i][1] = name
                 /\ \A m \in 1..Len(doc.pairs) : doc.pairs[m][1] = name => m <= i][2]

\* verify_query whose fallback rejects the query
verify_query_fallback_invalid(llm) ==
    IF llm.kind = "raise"
    THEN [valid |-> FALSE, feedback |-> <<"Verification failed: ">> \o llm.exc]
    ELSE LET parsed == json_loads(strip_reply(strip_fences(strip_reply(llm.val))))
         IN  IF parsed.ok THEN loads(parsed.doc)
             ELSE [valid |-> FALSE,
                   feedback |-> <<"Verification failed: ">> \o JSONDecodeError]

\* SupervisorAgent.verify_query; llm is the outcome of self.llm.invoke
verify_query(llm) ==
    IF llm.kind = "raise"
    THEN [valid |-> TRUE, feedback |-> <<"Verification failed: ">> \o llm.exc]
    ELSE LET parsed == json_loads(strip_reply(strip_fences(strip_reply(llm.val))))
         IN  IF parsed.ok THEN loads(parsed.doc)
             ELSE [valid |-> TRUE,
                   feedback |-> <<"Verification failed: ">> \o JSONDecodeError]

\* the try block of detect_complexity up to result["original_question"]:
\* the reply as the record detect_complexity goes on with. Control
\* characters become spaces, which json.loads skips like the whitespace
\* they were; a document that is not an object cannot be assigned to. A
\* member the object lacks reads as _expansion_node's result.get defaults.
complexity_reply(content) ==
    LET parsed == json_loads(strip_fences(strip_reply(content)))
    IN  IF parsed.ok /\ parsed.doc.j = "object"
        THEN [parses |-> TRUE,
              is_complex |-> IF HasMember(parsed.doc, "is_complex")
                             THEN Member(parsed.doc, "is_complex").b ELSE FALSE,
              sub_questions |->
                  IF ~HasMember(parsed.doc, "sub_questions") THEN Some(<<>>)
                  ELSE LET list == Member(parsed.doc, "sub_questions")
                       IN  IF list.j = "null" THEN None
                           ELSE Some([i \in 1..Len(list.items) |-> <<list.items[i].s>>])]
        ELSE [parses |-> FALSE, is_complex |-> FALSE, sub_questions |-> None]

\* the results part of the prompt of synthesize_answer with every row in it
results_str_unlimited(results) ==
    [rows |-> results, note |-> None]

\* synthesize_answer: results_str, as the rows printed and the note added
\* after them with the numbers it states
results_str(results) ==
    [rows |-> SubSeq(results, 1, IF Len(results) < RowLimit THEN Len(results) ELSE RowLimit),
     note |-> IF Len(results) > RowLimit
              THEN Some([text |-> <<"\n... (showing first ", " of ", " rows)">>,
                         numbers |-> <<RowLimit, Len(results)>>])
              ELSE None]

\* bodies of a reply: prose, a verification verdict, a complexity verdict,
\* a JSON array
ReplyBodies ==
    { Text("Looks good"), JArr(<<>>) }
    \cup { JObj(<< <<"valid", JBool(b)>>, <<"feedback", JStr("feedback")>> >>) :
             b \in BOOLEAN }
    \cup { JObj(<< <<"is_complex", JBool(b)>>, <<"sub_questions", list>>,
                   <<"reasoning", JStr("reasoning")>> >>) :
             b \in BOOLEAN,
             list \in { JNull, JArr(<<>>), JArr(<<JStr("sub-question 1")>>) } }

\* a body as the model sends it: bare, fenced, fenced without the closing
\* fence, or after a sentence
Replies ==
    UNION { { <<body>>,
              <<Text("\n"), body, Text(" ")>>,
              <<Text(FenceJson), Text("\n"), body, Text("\n"), Text(Fence)>>,
              <<Text(Fence), body, Text(Fence), Text("\n")>>,
              <<Text(FenceJson), body>>,
              <<Text("Here it is:"), Text(FenceJson), body, Text(Fence)>> } :
            body \in ReplyBodies }
    \cup { <<>> }

\* a call of the agent is about to be made
AgentInit ==
    /\ GraphInit
    /\ config = None
    /\ chat = None
    /\ keyio = None
    /\ memory = None
    /\ registry = None
    /\ reader = None
    /\ loader = None
    /\ cli = None
    /\ conv = None
    /\ \/ \E fn \in { "verify_query", "detect_complexity" }, question \in Questions,
             llm \in Returns(Replies) \cup Raises :
             agent = [fn |-> fn, question |-> question, llm |-> llm,
                      result |-> None, route |-> None]
       \/ \E n \in 0..MaxRows :
             agent = [fn |-> "synthesize_answer", results |-> [i \in 1..n |-> i],
                      result |-> None, route |-> None]

\* supervisor.verify_query(query, schema_info)
VerifyQuery ==
    /\ agent.fn = "verify_query"
    /\ agent.result = None
    /\ agent' = [agent EXCEPT !.result = Some(verify_query(agent.llm))]
    /\ UNCHANGED outsideAgent

\* supervisor.detect_complexity(question, schema_info)
DetectComplexity ==
    /\ agent.fn = "detect_complexity"
    /\ agent.result = None
    /\ agent' = [agent EXCEPT
                   !.result = Some(detect_complexity(
                                     agent.question,
                                     IF agent.llm.kind = "raise" THEN agent.llm
                                     ELSE [agent.llm EXCEPT !.val = complexity_reply(@)]))]
    /\ UNCHANGED outsideAgent

\* _expansion_node takes the result and _check_complexity routes
RouteComplexity ==
    /\ agent.fn = "detect_complexity"
    /\ agent.result # None
    /\ agent.route = None
    /\ agent' = [agent EXCEPT
                   !.route = Some(check_complexity(
                                    expansion_node(InitialState(agent.question),
                                                   agent.result[1])))]
    /\ UNCHANGED outsideAgent

\* supervisor.synthesize_answer(question, query, results, schema_info) builds
\* its prompt
SynthesizePrompt ==
    /\ agent.fn = "synthesize_answer"
    /\ agent.result = None
    /\ agent' = [agent EXCEPT !.result = Some(results_str(agent.results))]
    /\ UNCHANGED outsideAgent

AgentNext ==
    \/ VerifyQuery
    \/ DetectComplexity
    \/ RouteComplexity
    \/ SynthesizePrompt

AgentSpec == AgentInit /\ [][AgentNext]_vars

\* ------------------------------------------------- the command-line entry point
\* (src/src/main.py: main, initialize_database, initialize_system). db is
\* the DuckDB connection: "unopened", "open" or "closed"; db_bound says
\* whether main's local name db has been assigned.

\* what load_excel_files returns in a run
IngestResults ==
    { <<>>,
      ("t1" :> <<ColumnInfo("a")>>),
      ("t1" :> <<ColumnInfo("a")>>) @@ ("t2" :> <<ColumnInfo("b"), ColumnInfo("a")>>) }

\* the snapshot an earlier full ingest left at the schema path
EarlierSnapshot ==
    [state |-> "json",
     doc |-> save_to_file(update(NewRegistry, ("t2" :> <<ColumnInfo("b")>>))),
     origin |-> Some(Contents(update(NewRegistry, ("t2" :> <<ColumnInfo("b")>>))))]

\* main whose except KeyboardInterrupt clause does not call sys.exit(1)
leave_interrupt_unmarked(c, cause) ==
    [c EXCEPT !.pc = "exited",
              !.cause = cause,
              !.exit_code = IF cause \in { "return", "interrupt" } THEN 0 ELSE 1,
              !.db = IF c.db_bound /\ c.db = "open" THEN "closed" ELSE @]

\* main leaves: the except clauses choose the exit code, the finally clause
\* closes the connection if the name db is bound
leave(c, cause) ==
    [c EXCEPT !.pc = "exited",
              !.cause = cause,
              !.exit_code = IF cause = "return" THEN 0 ELSE 1,
              !.db = IF c.db_bound /\ c.db = "open" THEN "closed" ELSE @]

\* the arguments are parsed; a snapshot and a database file may exist
CliInit ==
    /\ GraphInit
    /\ config = None
    /\ chat = None
    /\ keyio = None
    /\ memory = None
    /\ registry = None
    /\ reader = None
    /\ loader = None
    /\ agent = None
    /\ conv = None
    /\ \E database \in BOOLEAN, mode \in { "chat", "question", "none" },
          file \in { AbsentFile, MalformedFile, EarlierSnapshot },
          db_file \in BOOLEAN :
          cli = [args |-> [database |-> database, mode |-> mode],
                 pc |-> "start",
                 file |-> file,
                 db_file |-> db_file,
                 db |-> "unopened",
                 db_bound |-> FALSE,
                 ingested |-> None,
                 reg |-> NewRegistry,
                 init |-> "none",
                 chat_interrupted |-> FALSE,
                 cause |-> "none",
                 exit_code |-> 0]

\* if not args.chat and not args.question: sys.exit(1), before the try
ValidateArgs ==
    /\ cli.pc = "start"
    /\ cli' = IF cli.args.mode = "none"
              THEN [cli EXCEPT !.pc = "exited", !.cause = "usage", !.exit_code = 1]
              ELSE [cli EXCEPT !.pc = "initialize"]
    /\ UNCHANGED outsideCli

\* schema_manager, db = initialize_database()
InitializeDatabase ==
    /\ cli.pc = "initialize"
    /\ cli.args.database
    /\ \/ \E cause \in { "error", "interrupt" } :
             \* DuckDBManager() does not return
             cli' = leave([cli EXCEPT !.init = "failed"], cause)
       \/ \E cause \in { "error", "interrupt" } :
             \* load_excel_files(db.con) does not return
             cli' = leave([cli EXCEPT !.db = "open", !.db_file = TRUE,
                                      !.init = "failed"], cause)
       \/ \E schemas \in IngestResults :
             LET opened == [cli EXCEPT !.db = "open", !.db_file = TRUE,
                                       !.ingested = Some(schemas)]
             IN  IF schemas = <<>>
                 THEN cli' = [opened EXCEPT !.reg = NewRegistry,
                                            !.db_bound = TRUE,
                                            !.init = "completed",
                                            !.pc = "ready"]
                 ELSE \/ \E cause \in { "error", "interrupt" } :
                            \* save_to_file(settings.schema_path) does not return
                            cli' = leave([opened EXCEPT
                                            !.reg = update(NewRegistry, schemas),
                                            !.init = "failed"], cause)
                      \/ cli' = [opened EXCEPT
                                   !.reg = update(NewRegistry, schemas),
                                   !.file = [state |-> "json",
                                             doc |-> save_to_file(update(NewRegistry, schemas)),
                                             origin |-> Some(Contents(update(NewRegistry, schemas)))],
                                   !.db_bound = TRUE,
                                   !.init = "completed",
                                   !.pc = "ready"]
    /\ UNCHANGED outsideCli

\* schema_manager, db = initialize_system()
InitializeSystem ==
    /\ cli.pc = "initialize"
    /\ ~cli.args.database
    /\ LET loaded == load_from_file(NewRegistry, cli.file)
       IN  IF ~cli.db_file \/ cli.file.state = "absent" \/ loaded.returned # "True"
           THEN cli' = leave([cli EXCEPT !.init = "failed"], "error")
           ELSE \/ \E cause \in { "error", "interrupt" } :
                      \* DuckDBManager() does not return
                      cli' = leave([cli EXCEPT !.reg = loaded.reg, !.init = "failed"], cause)
                \/ cli' = [cli EXCEPT !.reg = loaded.reg,
                                      !.db = "open",
                                      !.db_bound = TRUE,
                                      !.init = "completed",
                                      !.pc = "ready"]
    /\ UNCHANGED outsideCli

\* run_interactive_chat(args, schema_manager, db); return
RunInteractiveChat ==
    /\ cli.pc = "ready"
    /\ cli.args.mode = "chat"
    /\ \/ \E cause \in { "return", "error", "interrupt" } : cli' = leave(cli, cause)
       \/ \* KeyboardInterrupt inside the loop: caught there, the call returns
          cli' = leave([cli EXCEPT !.chat_interrupted = TRUE], "return")
    /\ UNCHANGED outsideCli

\* graph = AgenticGraph(schema_manager=schema_manager, db=db)
BuildGraph ==
    /\ cli.pc = "ready"
    /\ cli.args.mode = "question"
    /\ \/ cli' = [cli EXCEPT !.pc = "built"]
       \/ \E cause \in { "error", "interrupt" } : cli' = leave(cli, cause)
    /\ UNCHANGED outsideCli

\* result = graph.run(args.question); display_result(result, args.verbose)
RunQuestion ==
    /\ cli.pc = "built"
    /\ \E cause \in { "return", "error", "interrupt" } : cli' = leave(cli, cause)
    /\ UNCHANGED outsideCli

CliNext ==
    \/ ValidateArgs
    \/ InitializeDatabase
    \/ InitializeSystem
    \/ RunInteractiveChat
    \/ BuildGraph
    \/ RunQuestion

CliSpec == CliInit /\ [][CliNext]_vars

\* ------------------------------------------------------------- configuration
\* (src/config.py: the Settings dataclass, whose defaults are evaluated from
\* the environment when the module is imported). Values are sequences of
\* characters.

EnvChars == { "1", ".", "x", " ", "-" }
TemperatureValues == UNION { [1..n -> EnvChars] : n \in 0..MaxEnvLen }
MemoryFlagValues ==
    { <<"t","r","u","e">>, <<"T","r","u","e">>, <<"T","R","U","E">>,
      <<"f","a","l","s","e">>, <<"F","a","l","s","e">>,
      <<"1">>, <<"0">>, <<"y","e","s">>, <<"m","a","y","b","e">>, <<>> }

\* os.getenv(name, default)
getenv(env, name, default) == IF env[name] = None THEN default ELSE env[name][1]

\* TRUE iff float(text) returns: blanks around an optional sign and decimal
\* digits with at most one point
float_parses(text) ==
    LET t == strip(text)
        body == IF t # <<>> /\ t[1] = "-" THEN Tail(t) ELSE t
    IN  /\ \A i \in 1..Len(body) : body[i] \in Digits \cup {"."}
        /\ \E i \in 1..Len(body) : body[i] \in Digits
        /\ Cardinality({ i \in 1..Len(body) : body[i] = "." }) <= 1

\* float(text) for a text that parses: sign, whole digits, fraction digits
float(text) ==
    LET t == strip(text)
        body == IF t[1] = "-" THEN Tail(t) ELSE t
        point == IF \E i \in 1..Len(body) : body[i] = "."
                 THEN CHOOSE i \in 1..Len(body) : body[i] = "."
                 ELSE Len(body) + 1
    IN  [negative |-> t[1] = "-",
         whole |-> SubSeq(body, 1, point - 1),
         fraction |-> SubSeq(body, point + 1, Len(body))]

\* the class body of Settings: the two fields that are converted
Settings(env) ==
    LET temperature == getenv(env, "AGENT_TEMPERATURE", <<"0", ".", "1">>)
        flag == getenv(env, "USE_POSTGRES_MEMORY", <<"f","a","l","s","e">>)
    IN  IF ~ float_parses(temperature)
        THEN [kind |-> "raise", exc |-> "ValueError",
              agent_temperature |-> None, use_postgres_memory |-> None]
        ELSE [kind |-> "ok", exc |-> "",
              agent_temperature |-> Some(float(temperature)),
              use_postgres_memory |-> Some(Lower(flag) = <<"t","r","u","e">>)]

\* the environment of the process before config is imported
ConfigInit ==
    /\ GraphInit
    /\ keyio = None
    /\ memory = None
    /\ registry = None
    /\ reader = None
    /\ loader = None
    /\ agent = None
    /\ cli = None
    /\ conv = None
    /\ chat = None
    /\ \E temperature \in {None} \cup { Some(v) : v \in TemperatureValues },
          flag \in {None} \cup { Some(v) : v \in MemoryFlagValues } :
          config = [phase |-> "start",
                    env |-> [AGENT_TEMPERATURE |-> temperature,
                             USE_POSTGRES_MEMORY |-> flag],
                    settings |-> None]

\* import config: settings = Settings()
ImportConfig ==
    /\ config.phase = "start"
    /\ config' = [config EXCEPT !.phase = "imported",
                                !.settings = Some(Settings(config.env))]
    /\ UNCHANGED outsideConfig

ConfigNext == ImportConfig

ConfigSpec == ConfigInit /\ [][ConfigNext]_vars

\* ------------------------------------------------------- the interactive chat
\* (src/src/main.py: run_interactive_chat). Lines are sequences of
\* characters; input is what the operator types before the stream ends, pos
\* the number of lines read so far, out what the session printed.

ChatLines ==
    { <<>>, <<" ">>,
      <<"e","x","i","t">>, <<"E","X","I","T">>, <<"Q","u","i","t">>,
      <<"h","i","s","t","o","r","y">>, <<"H","i","s","t","o","r","y"," ">>,
      <<"q","1">>, <<"e","x","i","t","s">> }
ChatInputs == UNION { [1..n -> ChatLines] : n \in 0..MaxLines }

\* the branches of the loop body told apart by case as well
command_case_sensitive(question) ==
    IF question = <<>> THEN "blank"
    ELSE IF question \in { <<"e","x","i","t">>, <<"q","u","i","t">> } THEN "exit"
    ELSE IF question = <<"h","i","s","t","o","r","y">> THEN "history"
    ELSE "question"

\* the branch of the loop body a stripped line takes
command(question) ==
    IF question = <<>> THEN "blank"
    ELSE IF Lower(question) \in { <<"e","x","i","t">>, <<"q","u","i","t">> } THEN "exit"
    ELSE IF Lower(question) = <<"h","i","s","t","o","r","y">> THEN "history"
    ELSE "question"

\* MemoryManager.list_user_threads
list_user_threads(cache, user_id) == cache[user_id]

\* leaving the loop: memory.close() closes the Postgres connection if any
close_memory(c, how) ==
    [c EXCEPT !.phase = "returned",
              !.ended = how,
              !.closed = TRUE,
              !.pg_connection = IF @ = "open" THEN "closed" ELSE @]

\* run_interactive_chat is called with the parsed arguments
ChatInit ==
    /\ GraphInit
    /\ keyio = None
    /\ memory = None
    /\ registry = None
    /\ reader = None
    /\ loader = None
    /\ agent = None
    /\ cli = None
    /\ conv = None
    /\ config = None
    /\ \E history \in BOOLEAN, use_postgres \in BOOLEAN, input \in ChatInputs :
          chat = [args |-> [user |-> <<"a">>, thread |-> <<"_">>, history |-> history],
                  use_postgres |-> use_postgres,
                  phase |-> "start",
                  input |-> input,
                  pos |-> 0,
                  pg_connection |-> "none",
                  threads_cache |-> [u \in ChatUsers |-> <<>>],
                  config |-> None,
                  runs |-> <<>>,
                  out |-> <<>>,
                  failed_reads |-> 0,
                  closed |-> FALSE,
                  ended |-> "no"]

\* the statements before the loop: MemoryManager, register_thread,
\* get_config, AgenticGraph
StartChat ==
    /\ chat.phase = "start"
    /\ \E built \in BOOLEAN :
          LET made == MemoryManager_init(chat.use_postgres, "ok")
              registered == [chat EXCEPT
                  !.pg_connection = made.pg_connection,
                  !.threads_cache = register_thread(@, chat.args.user, chat.args.thread, 1),
                  !.config = Some(get_config(chat.args.user, chat.args.thread)),
                  !.out = Append(@, [what |-> "banner", n |-> 0, threads |-> <<>>])]
          IN  chat' = IF built THEN [registered EXCEPT !.phase = "loop"]
                      ELSE [registered EXCEPT !.phase = "raised"]
    /\ UNCHANGED outsideChat

\* one pass of the while loop in which input() returns a line or fails
\* because the stream has ended
LoopPass ==
    /\ chat.phase = "loop"
    /\ IF chat.pos = Len(chat.input)
       THEN \* EOFError is an Exception: printed, and the loop goes on;
            \* failed_reads counts these passes modulo 2
            chat' = [chat EXCEPT !.failed_reads = (@ + 1) % 2]
       ELSE LET n == chat.pos + 1
                question == strip(chat.input[n])
                read == [chat EXCEPT !.pos = n]
                printed(c, what, threads) ==
                    [c EXCEPT !.out = Append(@, [what |-> what, n |-> n,
                                                 threads |-> threads])]
            IN  CASE command(question) = "blank" -> chat' = read
                  [] command(question) = "exit" ->
                       chat' = close_memory(printed(read, "goodbye", <<>>), "exit")
                  [] command(question) = "history" ->
                       chat' = printed(read, "threads",
                                       list_user_threads(chat.threads_cache, chat.args.user))
                  [] OTHER ->
                       \E outcome \in { "answer", "error", "no answer",
                                        "raised", "interrupted" } :
                          LET ran == [read EXCEPT
                                        !.runs = Append(@, [n |-> n,
                                                            question |-> question,
                                                            config |-> chat.config])]
                          IN  chat' = IF outcome = "interrupted"
                                      THEN close_memory(printed(ran, outcome, <<>>),
                                                        "interrupt")
                                      ELSE printed(ran, outcome, <<>>)
    /\ UNCHANGED outsideChat

\* the operator presses Ctrl+C while input() waits
InterruptAtPrompt ==
    /\ chat.phase = "loop"
    /\ chat' = close_memory([chat EXCEPT
                   !.out = Append(@, [what |-> "interrupted", n |-> 0,
                                      threads |-> <<>>])], "interrupt")
    /\ UNCHANGED outsideChat

ChatNext ==
    \/ StartChat
    \/ LoopPass
    \/ InterruptAtPrompt

ChatSpec == ChatInit /\ [][ChatNext]_vars

\* the session's own steps are taken while they are possible; nothing makes
\* the operator interrupt
ChatFairSpec == ChatSpec /\ WF_vars(StartChat \/ LoopPass)

\* ------------------------------------------------------------------ claims
Finished == pc \in {"END", "returned"}

\* the decomposition detect_complexity returned, [] when it is none or null
DetectedSubQuestions ==
    IF detected = None \/ detected[1].sub_questions = None
    THEN <<>> ELSE detected[1].sub_questions[1]

\* detect_complexity reported a complex question with at least one sub-question
DetectedComplex ==
    /\ detected # None
    /\ detected[1].is_complex
    /\ Len(DetectedSubQuestions) >= 1

\* detect_complexity reported a simple question
DetectedSimple == detected # None /\ ~ detected[1].is_complex

\* every generate_query call for the current (sub-)question returned SQL and
\* every one of them failed db.validate_schema
EveryQueryInvalid ==
    /\ cyc.gen >= 1
    /\ cyc.genFail = 0
    /\ cyc.val = cyc.gen
    /\ cyc.invalid = cyc.val

\* C1: when every SQL string the query-writer produces fails the structural
\* validation, the workflow reaches execute after exactly 3 corrective
\* re-generations following the initial one, that is after 4 calls of
\* generate_query, and never makes more than 4.
C1_RetryCeiling ==
    /\ cyc.gen <= max_retries + 1
    /\ (pc = "execute" /\ EveryQueryInvalid) => cyc.gen = 1 + max_retries

\* C2: a run that started reaches END, and a run that needs a query reaches
\* execute.
C2_Termination ==
    /\ (pc = "supervisor") ~> (pc = "END")
    /\ TruthyBool(state.needs_query) ~> ("execute" \in visited)

\* a decomposed run went through the retry loop and came to its end
C2_Witness ==
    /\ pc = "END"
    /\ Len(prepared) = 2
    /\ cyc.gen = max_retries
    /\ "aggregation" \in visited

\* C3: the retry counter never exceeds 3, and a verify step that ends with
\* the counter at 3 or more is followed by execute.
C3_RetryBound ==
    /\ [](state.retries <= max_retries)
    /\ [][(pc = "verify" /\ state'.retries >= max_retries) => pc' = "execute"]_vars

\* execute entered with an invalid query after the counter reached 3 through
\* both a generation failure and a validation failure
C3_Witness ==
    /\ pc = "execute"
    /\ state.retries = max_retries
    /\ state.query_is_valid = Some(FALSE)
    /\ cyc.genFail >= 1
    /\ cyc.invalid >= 1

\* C4: when the upper-cased analysis reply lacks NEED_QUERY, the run is at
\* END right after supervisor with the raw reply as its answer; no other node
\* ran and neither generate_query, validate_schema nor db.query was called.
C4_NoQueryShortCircuit ==
    (/\ analysis # None
     /\ analysis[1].kind = "ok"
     /\ ~ Contains(Upper(analysis[1].val), NEED_QUERY))
    => /\ Finished
       /\ state.answer = Some(analysis[1].val)
       /\ visited = {"supervisor"}
       /\ cyc = NewCycle
       /\ execLog = <<>>
       /\ composed = <<>>

\* the reply "need query" (no underscore) ended the run
C4_Witness ==
    /\ pc = "returned"
    /\ analysis = Some([kind |-> "ok", exc |-> <<>>,
                        val |-> <<"n","e","e","d"," ","q","u","e","r","y">>])

\* C5: after a decomposition into n >= 1 sub-questions the finished run has
\* prepared the n sub-questions in list order, executed and collected once
\* for each, asked for exactly one aggregation over n records, record i
\* holding sub-question i with the SQL and the rows of its execute step, and
\* never visited synthesize.
C5_DecompositionRouting ==
    (Finished /\ DetectedComplex)
    => LET n == Len(DetectedSubQuestions)
           recs == state.sub_results[1]
       IN  /\ prepared = DetectedSubQuestions
           /\ Len(execLog) = n
           /\ state.sub_results # None /\ Len(recs) = n
           /\ state.current_sub_question_index = n
           /\ Len(composed) = 1
           /\ composed[1].role = "aggregate"
           /\ composed[1].sub_results = recs
           /\ \A i \in 1..n :
                /\ recs[i].sub_question = DetectedSubQuestions[i]
                /\ recs[i].results = execLog[i].rows
                /\ execLog[i].called => recs[i].query = execLog[i].sql
           /\ "synthesize" \notin visited

\* a run over two sub-questions ended, the query of the second having failed
\* after the first returned rows
C5_Witness ==
    /\ pc = "returned"
    /\ Len(prepared) = 2
    /\ Len(execLog) = 2
    /\ execLog[1].rows = Some(<<"row">>)
    /\ execLog[2].raised # None

\* C6: a run whose complexity detection returned is_complex = false never
\* visits sub_question, collect or aggregation; it has no answer before
\* synthesize and ends with the answer synthesize produced.
C6_SimplePath ==
    DetectedSimple
    => /\ visited \cap {"sub_question", "collect", "aggregation"} = {}
       /\ "synthesize" \notin visited => (state.answer = None /\ ~ Finished)
       /\ Finished => ("synthesize" \in visited /\ state.answer # None)

\* a simple run ended through synthesize
C6_Witness ==
    /\ pc = "returned"
    /\ DetectedSimple
    /\ composed # <<>> /\ composed[1].role = "synthesize"

\* C7: when db.query raised in some execute step of a simple run or of a
\* run over at least one sub-question, the finished run records
\* that execution error, the interpreter was not asked to compose an answer,
\* and the answer contains the error text.
C7_ExecutionErrorSurfaces ==
    (Finished /\ (DetectedSimple \/ DetectedComplex))
    => \A i \in 1..Len(execLog) :
          execLog[i].raised # None
          => LET text == <<"Query execution error: ">> \o execLog[i].raised[1]
             IN  /\ state.error = Some(text)
                 /\ composed = <<>>
                 /\ state.answer # None
                 /\ Contains(state.answer[1], text)

\* the exception an interpreter call of the run raised, as a set
SupervisorRaised ==
    IF analysis # None /\ analysis[1].kind = "raise" THEN {analysis[1].exc} ELSE {}
ComposeRaised(role) ==
    { composed[i].raised[1] :
        i \in { j \in 1..Len(composed) :
                  composed[j].role = role /\ composed[j].raised # None } }

\* the run ended with the error recorded and an answer that renders it
ErrorRecordedAndRendered(prefix, e) ==
    /\ state.error = Some(prefix \o e)
    /\ state.answer # None
    /\ Contains(state.answer[1], e)

\* C8 as stated: a raise of analyze_question, synthesize_answer or
\* aggregate_results ends the run with the error recorded and rendered in
\* the answer text.
C8_Original ==
    Finished
    => /\ \A e \in SupervisorRaised :
            ErrorRecordedAndRendered(<<"Supervisor error: ">>, e)
       /\ \A e \in ComposeRaised("synthesize") :
            ErrorRecordedAndRendered(<<"Synthesis error: ">>, e)
       /\ \A e \in ComposeRaised("aggregate") :
            ErrorRecordedAndRendered(<<"Aggregation error: ">>, e)

\* C8 amended: a raise of synthesize_answer or aggregate_results ends the run
\* with the error recorded and rendered in the answer text; a raise of
\* analyze_question ends the run at supervisor with the error recorded and
\* no answer text.
C8_LLMErrors ==
    Finished
    => /\ \A e \in SupervisorRaised :
            /\ state.error = Some(<<"Supervisor error: ">> \o e)
            /\ state.answer = None
            /\ visited = {"supervisor"}
       /\ \A e \in ComposeRaised("synthesize") :
            ErrorRecordedAndRendered(<<"Synthesis error: ">>, e)
       /\ \A e \in ComposeRaised("aggregate") :
            ErrorRecordedAndRendered(<<"Aggregation error: ">>, e)

\* analyze_question raised and the run returned
C8_Witness ==
    /\ pc = "returned"
    /\ SupervisorRaised # {}

\* C9: a coding step in which generate_query raises adds exactly one to the
\* retry counter; the verify step that follows leaves the counter alone,
\* does not call validate_schema, marks the query invalid, moves the error
\* into the feedback, clears the error, and goes back to coding iff the
\* counter is below 3.
C9_GenerationFailure ==
    /\ [][(pc = "coding" /\ cyc'.genFail # cyc.genFail)
            => /\ state'.retries = state.retries + 1
               /\ Truthy(state'.error)
               /\ pc' = "verify"]_vars
    /\ [][(pc = "verify" /\ Truthy(state.error))
            => /\ state'.retries = state.retries
               /\ cyc'.val = cyc.val
               /\ state'.query_is_valid = Some(FALSE)
               /\ state'.query_feedback = state.error
               /\ state'.error = None
               /\ (pc' = "coding") <=> (state'.retries < max_retries)
               /\ (pc' = "execute") <=> (state'.retries >= max_retries)]_vars

\* back in coding after one failed generation went through verify
C9_Witness ==
    /\ pc = "coding"
    /\ cyc.gen = 1 /\ cyc.genFail = 1 /\ cyc.val = 0
    /\ state.retries = 1
    /\ state.query_feedback = Some(<<"Query generation error: ">> \o <<"boom">>)
    /\ state.error = None

\* C10: when coding is entered for the first time for a sub-question, the
\* question is that sub-question, query, results, validity, feedback and
\* error are empty and the retry counter is 0.
C10_CleanSubQuestion ==
    (pc = "coding" /\ cyc.gen = 0 /\ "sub_question" \in visited)
    => LET i == state.current_sub_question_index
       IN  /\ i < Len(SubQuestionsOf(state))
           /\ state.question = SubQuestionsOf(state)[i + 1]
           /\ state.query = None
           /\ state.results = None
           /\ state.query_is_valid = None
           /\ state.query_feedback = None
           /\ state.error = None
           /\ state.retries = 0

\* the second sub-question starts after the query of the first one raised
C10_Witness ==
    /\ pc = "coding"
    /\ cyc.gen = 0
    /\ state.current_sub_question_index = 1
    /\ Len(execLog) = 1
    /\ execLog[1].raised # None
    /\ state.sub_results[1][1].query # None

\* the human turn run puts first: the question it was called with
QuestionTurn == [role |-> "human", content |-> state.original_question[1]]

C13_UsersDoNotCollide ==
    (keyio.config1 # None /\ keyio.user1 # keyio.user2)
    => keyio.config1[1].configurable.thread_id
         # keyio.config2[1].configurable.thread_id

\* keys made for users "a" and "a_" and the thread name "_a"
C13_Witness ==
    /\ keyio.phase = "made"
    /\ keyio.user1 = <<"a">>
    /\ keyio.user2 = <<"a", "_">>
    /\ keyio.thread = <<"_", "a">>

\* C14: the key made for (user, thread) is the user's characters, two
\* underscores, then the thread's characters; parsing a text that contains
\* "__" returns the part before the leftmost "__" and the part after it, and
\* parsing a text without "__" returns ("unknown", text).
C14_MakeAndParse ==
    /\ keyio.config1 # None
       => LET key == keyio.config1[1].configurable.thread_id
              n == Len(keyio.user1)
          IN  /\ Len(key) = n + 2 + Len(keyio.thread)
              /\ SubSeq(key, 1, n) = keyio.user1
              /\ key[n + 1] = "_" /\ key[n + 2] = "_"
              /\ SubSeq(key, n + 3, Len(key)) = keyio.thread
    /\ keyio.phase = "parsed"
       => LET text == keyio.raw[1]
              user == keyio.parsed[1][1]
              thread == keyio.parsed[1][2]
          IN  IF \E i \in 1..Len(text) : OccursAt(text, Separator, i)
              THEN /\ text = user \o <<"_", "_">> \o thread
                   /\ \A j \in 1..Len(user) : ~ OccursAt(text, Separator, j)
              ELSE /\ user = <<"u","n","k","n","o","w","n">>
                   /\ thread = text

\* the key "a___a" of user "a" and thread "_a" was parsed
C14_Witness ==
    /\ keyio.phase = "parsed"
    /\ keyio.raw = Some(<<"a", "_", "_", "_", "a">>)
    /\ keyio.parsed = Some(<< <<"a">>, <<"_", "a">> >>)

\* the last chat run, once one has been made
LastRun == memory.last[1]

\* C12: after a chat run under a run-config completes with an answer, the
\* history stored under the thread key includes that assistant turn, so the
\* next run on the same user and thread starts from the earlier questions
\* and the earlier answers
C12_AnswerPersisted ==
    (memory # None /\ memory.last # None /\ Truthy(LastRun.answer))
    => \E i \in 1..Len(memory.store[LastRun.key]) :
          memory.store[LastRun.key][i] =
              [role |-> "assistant", content |-> LastRun.answer[1]]

\* TRUE iff s is an initial segment of t
IsPrefix(s, t) == Len(s) <= Len(t) /\ \A i \in 1..Len(s) : s[i] = t[i]

\* C15: register_thread is idempotent: a user's list never holds two entries
\* of one thread identifier, entries keep their first-registration order,
\* and registering an existing (user, thread) pair again changes no list
C15_RegisterIdempotent ==
    /\ [](memory # None =>
            \A u \in ChatUsers :
               \A i, j \in 1..Len(memory.threads_cache[u]) :
                  memory.threads_cache[u][i].thread_id
                      = memory.threads_cache[u][j].thread_id => i = j)
    /\ [][ memory # None =>
            /\ \A u \in ChatUsers :
                  IsPrefix(memory.threads_cache[u], memory'.threads_cache[u])
            /\ (/\ memory'.clock # memory.clock
                /\ Registered(memory.threads_cache,
                              memory'.lastReg[1][1], memory'.lastReg[1][2]))
               => memory'.threads_cache = memory.threads_cache ]_vars

\* a pair was registered a second time, after another thread of that user
C15_Witness ==
    /\ memory # None
    /\ memory.clock = 3
    /\ memory.lastReg = Some(<< <<"a">>, <<"a">> >>)
    /\ Len(memory.threads_cache[<<"a">>]) = 2
    /\ memory.threads_cache[<<"a">>][1].thread_id = <<"a">>
    /\ memory.threads_cache[<<"a">>][1].created_at = 1

\* C16: constructing the memory manager never fails and leaves a checkpoint
\* store installed; with the durable backend requested, a missing connection
\* string, a missing package, a connection failure and a failed schema setup
\* each end with the in-memory store
C16_ConstructionFallsBack ==
    (memory # None /\ memory.phase # "new")
    => /\ memory.phase = "ready"
       /\ memory.checkpointer \in {"memory", "postgres"}
       /\ ~memory.use_postgres => memory.checkpointer = "memory"
       /\ (memory.use_postgres /\ memory.outcome # "ok")
          => memory.checkpointer = "memory"
       /\ (memory.use_postgres /\ memory.outcome = "ok")
          => memory.checkpointer = "postgres"

\* the durable backend was requested, its schema setup failed, and the
\* manager serves a registered thread from the in-memory store
C16_Witness ==
    /\ memory # None
    /\ memory.use_postgres
    /\ memory.outcome = "setup_failed"
    /\ memory.checkpointer = "memory"
    /\ memory.turns > 0

\* the column names that occur in more than one table of a mapping
InMoreThanOneTable(schemas) ==
    { name \in ColumnNames :
        \E t1, t2 \in DOMAIN schemas :
           /\ t1 # t2
           /\ name \in NamesOf(schemas[t1])
           /\ name \in NamesOf(schemas[t2]) }

\* C17: a registry built by update calls alone holds, for each table, the
\* columns of the latest update naming it, keeps the tables a later update
\* does not name, and its shared-column set is exactly the set of column
\* names that occur in more than one table
C17_UpdateMergesAndDetects ==
    /\ []((~registry.reg.loaded \/ registry.last.op = "update")
          => registry.reg.shared_columns = InMoreThanOneTable(registry.reg.schemas))
    /\ [][ registry'.last.op = "update"
           => /\ DOMAIN registry'.reg.schemas
                   = DOMAIN registry.reg.schemas \cup DOMAIN registry'.last.arg
              /\ \A t \in DOMAIN registry'.last.arg :
                    registry'.reg.schemas[t] = registry'.last.arg[t]
              /\ \A t \in DOMAIN registry.reg.schemas \ DOMAIN registry'.last.arg :
                    registry'.reg.schemas[t] = registry.reg.schemas[t] ]_vars

\* an update naming t1 alone replaced its columns, t2 stayed from an earlier
\* update, and column a is shared
C17_Witness ==
    /\ ~registry.reg.loaded
    /\ registry.last.op = "update"
    /\ registry.last.arg = ("t1" :> <<ColumnInfo("b"), ColumnInfo("a")>>)
    /\ registry.reg.schemas = ("t1" :> <<ColumnInfo("b"), ColumnInfo("a")>>)
                              @@ ("t2" :> <<ColumnInfo("a")>>)
    /\ registry.reg.shared_columns = {"a"}

\* C18: after any sequence of update and load_from_file calls the
\* shared-column set is the one derivable from the current table mapping,
\* and the [SHARED KEY] tags of describe agree with that mapping
C18_SharedDerivable ==
    /\ registry.reg.shared_columns = InMoreThanOneTable(registry.reg.schemas)
    /\ SharedKeyTags(registry.reg)
         = { e \in UNION { {t} \X NamesOf(registry.reg.schemas[t]) :
                             t \in DOMAIN registry.reg.schemas } :
               e[2] \in InMoreThanOneTable(registry.reg.schemas) }

\* the file is absent, or present and structurally invalid: not JSON, not
\* an object, or an object without tables or without shared_columns
AbsentOrInvalid(file) ==
    \/ file.state = "absent"
    \/ file.state = "malformed"
    \/ /\ file.state = "json"
       /\ \/ file.doc.j # "object"
          \/ /\ file.doc.j = "object"
             /\ ~(HasMember(file.doc, "tables") /\ HasMember(file.doc, "shared_columns"))

\* C19: load_from_file on an absent file or on a structurally invalid one
\* returns False without raising and leaves the table mapping and the
\* shared-column set as they were
C19_InvalidFileRejected ==
    [][ (registry'.last.op = "load" /\ AbsentOrInvalid(registry.file))
        => /\ registry'.last.returned = "False"
           /\ Contents(registry'.reg) = Contents(registry.reg) ]_vars

\* C20: save_to_file followed by load_from_file on a fresh registry returns
\* True and reproduces the saved table mapping, column order included, and
\* the saved shared-column set
C20_RoundTrip ==
    (registry.last.op = "load" /\ registry.last.fresh /\ registry.file.origin # None)
    => /\ registry.last.returned = "True"
       /\ Contents(registry.reg) = registry.file.origin[1]

\* a two-table registry with a shared column, t1 listing b before a, came
\* back from its snapshot into a fresh registry
C20_Witness ==
    /\ registry.last.op = "load"
    /\ registry.last.fresh
    /\ registry.file.origin # None
    /\ registry.reg.loaded
    /\ registry.reg.schemas = ("t1" :> <<ColumnInfo("b"), ColumnInfo("a")>>)
                              @@ ("t2" :> <<ColumnInfo("a")>>)
    /\ registry.reg.shared_columns = {"a"}

\* the registry contents last described and the text describe returned
Described == reader.described[1]

\* the listing part of a description and the relationships part after the
\* header, when there is one
HeaderPlaces(text) == { i \in 1..Len(text) : text[i] = RelationshipsHeader }
Listing(text) ==
    IF HeaderPlaces(text) = {} THEN text
    ELSE SubSeq(text, 1, (CHOOSE i \in HeaderPlaces(text) : TRUE) - 1)
RelationshipLines(text) ==
    IF HeaderPlaces(text) = {} THEN <<>>
    ELSE SubSeq(text, (CHOOSE i \in HeaderPlaces(text) : TRUE) + 1, Len(text))

IsTableName(piece) == piece \in ReaderTables
IsColumnName(piece) == piece \in ColumnNames
IsLineStart(piece) == piece = "- "

\* the table pairs (A before B in name order) with a common column name
LinkedPairs(schemas) ==
    { p \in (DOMAIN schemas) \X (DOMAIN schemas) :
        /\ NameRank[p[1]] < NameRank[p[2]]
        /\ NamesOf(schemas[p[1]]) \cap NamesOf(schemas[p[2]]) # {} }

\* where the relationship line of a pair starts
LinePlace(lines, p) ==
    { i \in 1..Len(lines) :
        /\ i + 4 <= Len(lines)
        /\ SubSeq(lines, i, i + 4) = <<"- ", p[1], " and ", p[2], " are linked by: ">> }

\* C21: describe returns exactly "No tables loaded." for a registry without
\* tables; otherwise it lists the tables in name order with their columns
\* in list order, tags a column [SHARED KEY] iff its name is in the
\* shared-column set, and appends one relationship line per table pair with
\* a common column name, pairs in order and the common names sorted, with
\* no relationships section when no pair has one
C21_Describe ==
    (reader.described # None)
    => LET schemas == Described.reg.schemas
           shared == Described.reg.shared_columns
           text == Described.text
           listing == Listing(text)
           lines == RelationshipLines(text)
           tables == Sorted(DOMAIN schemas)
       IN  IF schemas = <<>> THEN text = <<"No tables loaded.">>
           ELSE /\ SelectSeq(listing, IsTableName) = tables
                /\ SelectSeq(listing, IsColumnName)
                     = Join([i \in 1..Len(tables) |->
                               [k \in 1..Len(schemas[tables[i]]) |->
                                  schemas[tables[i]][k].name]], <<>>)
                /\ \A i \in 1..Len(listing) :
                      IsColumnName(listing[i])
                      => ((i + 4 <= Len(listing) /\ listing[i + 4] = " [SHARED KEY]")
                          <=> listing[i] \in shared)
                /\ Cardinality(HeaderPlaces(text)) <= 1
                /\ (HeaderPlaces(text) # {}) <=> (LinkedPairs(schemas) # {})
                /\ Len(SelectSeq(lines, IsLineStart)) = Cardinality(LinkedPairs(schemas))
                /\ \A p \in LinkedPairs(schemas) :
                      /\ Cardinality(LinePlace(lines, p)) = 1
                      /\ LET at == CHOOSE i \in LinePlace(lines, p) : TRUE
                             common == Sorted(NamesOf(schemas[p[1]]) \cap NamesOf(schemas[p[2]]))
                             names == Join([i \in 1..Len(common) |-> <<common[i]>>], <<", ">>)
                             end == at + 4 + Len(names)
                         IN  /\ end <= Len(lines)
                             /\ SubSeq(lines, at + 5, end) = names
                             /\ end < Len(lines) => lines[end + 1] = "\n"
                /\ \A p, q \in LinkedPairs(schemas) :
                      (\/ NameRank[p[1]] < NameRank[q[1]]
                       \/ (p[1] = q[1] /\ NameRank[p[2]] < NameRank[q[2]]))
                      => \A i \in LinePlace(lines, p), j \in LinePlace(lines, q) : i < j

\* three tables were described: t1 shares a with t2 and b with t3, and only
\* a is in the shared-column set
C21_Witness ==
    /\ reader.described # None
    /\ Described.reg.shared_columns = {"a"}
    /\ Described.reg.schemas = ("t1" :> <<ColumnInfo("b"), ColumnInfo("a")>>)
                               @@ ("t2" :> <<ColumnInfo("a")>>)
                               @@ ("t3" :> <<ColumnInfo("b")>>)
    /\ Described.text =
         <<"t1", " (", "b", " (", "STRING", ")", ", ",
                       "a", " (", "STRING", ")", " [SHARED KEY]", ")", "; ",
           "t2", " (", "a", " (", "STRING", ")", " [SHARED KEY]", ")", "; ",
           "t3", " (", "b", " (", "STRING", ")", ")",
           RelationshipsHeader,
           "- ", "t1", " and ", "t2", " are linked by: ", "a", "\n",
           "- ", "t1", " and ", "t3", " are linked by: ", "b">>

\* C22: get returns a defensive copy: whatever a caller does to the mapping
\* it got (setting or deleting a table entry, appending to, removing from or
\* editing a column list), get, get_columns and describe return what they
\* returned before
C22_DefensiveCopy ==
    (reader.held # None) => Observed(reader) = reader.seen[1]

\* C23: the table name of a sheet is <stem>_<sheet> with letters lower-cased,
\* digits and underscores kept, and every other character (space and hyphen
\* included) replaced by an underscore: it is as long as <stem>_<sheet> and
\* holds only alphanumerics and underscores; Sales Q1 with Region Data gives
\* sales_q1_region_data
C23_TableName ==
    (conv.fn = "table_name" /\ conv.out # None)
    => LET given == conv.stem \o <<"_">> \o conv.sheet
           name == conv.out[1]
       IN  /\ Len(name) = Len(given)
           /\ \A i \in 1..Len(given) :
                 /\ isalnum(name[i]) \/ name[i] = "_"
                 /\ name[i] = IF isalnum(given[i]) THEN LowerChar(given[i]) ELSE "_"
           /\ (conv.stem = SalesQ1 /\ conv.sheet = RegionData)
              => name = <<"s","a","l","e","s","_","q","1","_",
                          "r","e","g","i","o","n","_","d","a","t","a">>

\* the sheet Region Data of workbook Sales Q1 was named
C23_Witness ==
    /\ conv.fn = "table_name"
    /\ conv.stem = SalesQ1
    /\ conv.sheet = RegionData
    /\ conv.out = Some(<<"s","a","l","e","s","_","q","1","_",
                         "r","e","g","i","o","n","_","d","a","t","a">>)

\* the documented type of a label
DocumentedType(label) ==
    CASE label \in { <<"S","T","R","I","N","G">>, <<"T","E","X","T">>, <<"S","T","R">> } -> "VARCHAR"
      [] label \in { <<"I","N","T","E","G","E","R">>, <<"I","N","T">> } -> "INTEGER"
      [] label \in { <<"F","L","O","A","T">>, <<"D","O","U","B","L","E">>, <<"N","U","M","E","R","I","C">> } -> "DOUBLE"
      [] label \in { <<"B","O","O","L","E","A","N">>, <<"B","O","O","L">> } -> "BOOLEAN"
      [] label \in { <<"T","I","M","E","S","T","A","M","P">>, <<"D","A","T","E","T","I","M","E">> } -> "TIMESTAMP"
      [] label \in { <<"D","A","T","E">> } -> "DATE"
      [] OTHER -> "VARCHAR"

\* C25: map_excel_type_to_duckdb returns the documented type for each of the
\* thirteen labels in any letter case and with whitespace around it, and
\* VARCHAR for an absent, empty or unrecognized type string
C25_TypeMapping ==
    (conv.fn = "map_excel_type_to_duckdb" /\ conv.out # None)
    => conv.out[1] = IF conv.label = None THEN "VARCHAR"
                     ELSE DocumentedType(conv.label[1])

\* datetime, not in upper case and with whitespace before it, was mapped
C25_Witness ==
    /\ conv.fn = "map_excel_type_to_duckdb"
    /\ conv.label = Some(<<"D","A","T","E","T","I","M","E">>)
    /\ conv.excel_type[1][1] \in Whitespace
    /\ Upper(conv.excel_type[1]) # conv.excel_type[1]
    /\ conv.out = Some("TIMESTAMP")

\* every sheet place of a directory
Places(dir) == UNION { {w} \X (1..Len(dir[w].sheets)) : w \in 1..Len(dir) }

EndsWithUnderscore(name) == name # <<>> /\ name[Len(name)] = "_"

\* the tables created so far
CreatedTables ==
    { loader.attempts[k].table_name :
        k \in { i \in 1..Len(loader.attempts) : loader.attempts[i].created } }

\* C24: a sheet whose sanitized name ends in an underscore is never made a
\* database table nor a key of the returned schema; it serves only as the
\* metadata of the table named like it without the last underscore, and a
\* table gets its metadata wherever the metadata sheet stood in the scan
C24_MetadataSheets ==
    /\ \A n \in DOMAIN loader.database \cup DOMAIN loader.schema : ~EndsWithUnderscore(n)
    /\ \A place \in DOMAIN loader.fate :
          EndsWithUnderscore(NameAt(loader.dir, place))
          => /\ \A k \in 1..Len(loader.data_tables) : loader.data_tables[k].df # place
             /\ \A k \in 1..Len(loader.attempts) : loader.attempts[k].df # place
             /\ \A n \in DOMAIN loader.database : loader.database[n] # place
    /\ \A k \in 1..Len(loader.attempts) :
          LET tried == loader.attempts[k]
              sheets == { place \in DOMAIN loader.fate :
                            /\ loader.fate[place] = "metadata"
                            /\ NameAt(loader.dir, place) = tried.table_name \o <<"_">> }
          IN  /\ tried.meta # None <=> sheets # {}
              /\ tried.meta # None => tried.meta[1] \in sheets
              /\ tried.created
                 => loader.schema[tried.table_name] = table_columns(tried.meta)

\* workbook w lists sheet d and then sheet d-: the second was kept as the
\* metadata of table w_d, which was created alone
C24_Witness ==
    /\ loader.phase = "returned"
    /\ loader.dir = << [stem |-> <<"w">>, sheets |-> << <<"d">>, <<"d", "-">> >>] >>
    /\ Len(loader.attempts) = 1
    /\ loader.attempts[1].meta = Some(<<1, 2>>)
    /\ DOMAIN loader.database = { <<"w", "_", "d">> }
    /\ DOMAIN loader.schema = { <<"w", "_", "d">> }

\* C26: a workbook or sheet that cannot be read and a table that cannot be
\* created never abort load_excel_files and keep no other sheet or table
\* from being processed: every sheet of an opened workbook is looked at,
\* every data sheet read is tried as a table, and the returned schema holds
\* exactly the tables that were created
C26_FailuresIsolated ==
    /\ loader.phase # "aborted"
    /\ loader.phase \in { "process", "returned" }
       => /\ DOMAIN loader.fate = Places(loader.dir)
          /\ { loader.data_tables[k].df : k \in 1..Len(loader.data_tables) }
               = { place \in Places(loader.dir) : loader.fate[place] = "data" }
    /\ DOMAIN loader.schema = CreatedTables
    /\ DOMAIN loader.database = CreatedTables
    /\ loader.phase = "returned"
       => /\ Len(loader.attempts) = Len(loader.data_tables)
          /\ \A k \in 1..Len(loader.attempts) :
                loader.attempts[k].df = loader.data_tables[k].df

\* a sheet could not be read and a table could not be created, and the
\* call returned with the table of the other workbook
C26_Witness ==
    /\ loader.phase = "returned"
    /\ \E place \in DOMAIN loader.fate : loader.fate[place] = "raised"
    /\ Len(loader.attempts) = 2
    /\ ~loader.attempts[1].created
    /\ loader.attempts[2].created
    /\ DOMAIN loader.schema = { loader.attempts[2].table_name }

\* the model call failed, or its reply holds no JSON document
Unparseable(llm) ==
    \/ llm.kind = "raise"
    \/ \A i \in 1..Len(llm.val) : llm.val[i].j = "text"

\* C27: when the model call fails or its reply cannot be parsed as JSON,
\* verify_query returns valid = True with a feedback text naming the
\* failure, and detect_complexity returns is_complex = False with an empty
\* sub-question list and the original question, so that the workflow takes
\* the simple path
C27_ParserFallbacks ==
    (agent.result # None /\ agent.fn # "synthesize_answer" /\ Unparseable(agent.llm))
    => LET result == agent.result[1]
       IN  IF agent.fn = "verify_query"
           THEN /\ result.valid = TRUE
                /\ result.feedback
                     = <<"Verification failed: ">>
                       \o (IF agent.llm.kind = "raise" THEN agent.llm.exc
                           ELSE JSONDecodeError)
           ELSE /\ result.is_complex = FALSE
                /\ result.sub_questions = Some(<<>>)
                /\ result.original_question = agent.question
                /\ agent.route # None => agent.route = Some("simple")

\* the model answered the complexity prompt in prose inside fences, and the
\* question was routed to the simple path
C27_Witness ==
    /\ agent.fn = "detect_complexity"
    /\ agent.llm.kind = "ok"
    /\ Len(agent.llm.val) = 5
    /\ Unparseable(agent.llm)
    /\ agent.route = Some("simple")

\* the rows a result list of n rows leaves in the prompt
FirstRows(results) ==
    [i \in 1..(IF Len(results) < RowLimit THEN Len(results) ELSE RowLimit) |-> results[i]]

C29_ConnectionClosed ==
    (cli.pc = "exited" /\ cli.db # "unopened") => cli.db = "closed"

\* C30: every full-ingest initialization that completes has written the
\* snapshot at the schema path from the registry that ingest populated;
\* with zero tables it still completes, with an empty registry
C30_SnapshotWritten ==
    (cli.args.database /\ cli.init = "completed")
    => /\ cli.reg = update(NewRegistry, cli.ingested[1])
       /\ cli.file.state = "json"
       /\ cli.file.doc = save_to_file(cli.reg)
       /\ cli.ingested[1] = <<>> => Contents(cli.reg) = Contents(NewRegistry)

\* C36: collect and aggregation run only in runs that ran sub_question: when
\* expansion routes straight to coding (also when detect_complexity
\* reported is_complex = true with an empty list), execute is followed by
\* synthesize and the answer is never "No results to aggregate."
C36_CollectOnlyAfterPrepare ==
    ("sub_question" \notin visited)
    => /\ "collect" \notin visited
       /\ "aggregation" \notin visited
       /\ pc \notin { "collect", "aggregation" }
       /\ state.answer # Some(<<"No results to aggregate.">>)

\* C37: when the most recent generate_query call for the current
\* (sub-)question raised, the execute step sends no SQL to db.query
C37_NoExecuteAfterFailedGeneration ==
    [][(pc = "execute" /\ cyc.lastFailed)
        => ~ execLog'[Len(execLog')].called]_vars

\* C38: when every generate_query call of a run that never ran sub_question
\* raised, the finished run's error and answer contain the message raised
C38_GenerationErrorSurfaces ==
    (Finished /\ "sub_question" \notin visited /\ cyc.gen > 0 /\ cyc.genFail = cyc.gen)
    => \E e \in ErrMsgs :
          /\ state.error # None /\ Contains(state.error[1], e)
          /\ state.answer # None /\ Contains(state.answer[1], e)

\* C39: different (user, thread) pairs get different thread keys, and parsing
\* the key made for (user, thread) gives back (user, thread), also for
\* identifiers that contain or end with underscores
C39_KeysUnique ==
    /\ (keyio.phase = "keys"
        /\ <<keyio.user1, keyio.thread>> # <<keyio.user2, keyio.thread2[1]>>)
       => keyio.key1 # keyio.key2
    /\ (keyio.phase = "parsed"
        /\ keyio.raw = Some(make_thread_id(keyio.user1, keyio.thread)))
       => keyio.parsed = Some(<<keyio.user1, keyio.thread>>)

\* the value is set and float() rejects it
MalformedTemperature ==
    /\ config.env.AGENT_TEMPERATURE # None
    /\ ~ float_parses(config.env.AGENT_TEMPERATURE[1])

\* the value is set and spells neither true nor false in any letter case
MalformedMemoryFlag ==
    /\ config.env.USE_POSTGRES_MEMORY # None
    /\ Lower(config.env.USE_POSTGRES_MEMORY[1])
         \notin { <<"t","r","u","e">>, <<"f","a","l","s","e">> }

\* C31: a non-numeric AGENT_TEMPERATURE and a USE_POSTGRES_MEMORY that spells
\* neither true nor false each make the import of the configuration fail
\* instead of being replaced by a default
C31_MalformedValuesFail ==
    (config.phase = "imported" /\ (MalformedTemperature \/ MalformedMemoryFlag))
    => config.settings[1].kind = "raise"

\* C35: once load_excel_files has returned, no temporary view of a data
\* table is registered on the connection, whether the table was created or
\* its creation failed
C35_NoViewLeft ==
    loader.phase = "returned" => loader.views = {}

\* the orchestrator runs made for the n-th line of the input
RunsFor(n) == { i \in 1..Len(chat.runs) : chat.runs[i].n = n }

\* C32: in the chat loop a blank line never reaches the orchestrator; exit
\* or quit in any letter case ends the session; history lists the user's
\* registered threads without a run; every other non-empty line is run
\* exactly once with the session's run-config; an error raised while a line
\* is handled does not end the session; and the memory backend is closed
\* whenever the loop has been left
C32_ChatLoop ==
    /\ \A n \in 1..chat.pos :
          LET question == strip(chat.input[n])
              low == Lower(question)
          IN  IF question = <<>>
              THEN RunsFor(n) = {}
              ELSE IF low \in { <<"e","x","i","t">>, <<"q","u","i","t">> }
              THEN /\ RunsFor(n) = {}
                   /\ n = chat.pos
                   /\ chat.phase = "returned"
                   /\ chat.ended = "exit"
              ELSE IF low = <<"h","i","s","t","o","r","y">>
              THEN /\ RunsFor(n) = {}
                   /\ \E i \in 1..Len(chat.out) :
                         /\ chat.out[i].n = n
                         /\ chat.out[i].what = "threads"
                         /\ chat.out[i].threads = chat.threads_cache[chat.args.user]
                         /\ Registered(chat.threads_cache, chat.args.user, chat.args.thread)
              ELSE /\ Cardinality(RunsFor(n)) = 1
                   /\ \A i \in RunsFor(n) :
                         /\ chat.runs[i].question = question
                         /\ chat.runs[i].config
                              = Some(get_config(chat.args.user, chat.args.thread))
    /\ chat.phase = "returned"
       => /\ chat.out[Len(chat.out)].what \in { "goodbye", "interrupted" }
          /\ chat.closed
          /\ chat.pg_connection # "open"

\* the line q1 raised inside the orchestrator and the next line, EXIT, ended
\* the session
C32_Witness ==
    /\ chat.phase = "returned"
    /\ chat.input = << <<"q","1">>, <<"E","X","I","T">> >>
    /\ chat.pos = 2
    /\ \E i \in 1..Len(chat.out) : chat.out[i].what = "raised" /\ chat.out[i].n = 1
    /\ chat.use_postgres

\* C34: a session started with --history prints the user's threads with
\* their creation times at the start; without the flag the threads are
\* printed only in answer to the history command
C34_HistoryFlag ==
    /\ (chat.args.history /\ chat.phase \in { "loop", "returned" })
       => \E i \in 1..Len(chat.out) :
             chat.out[i].what = "threads" /\ chat.out[i].n = 0
    /\ ~ chat.args.history
       => \A i \in 1..Len(chat.out) :
             chat.out[i].what = "threads"
             => /\ chat.out[i].n > 0
                /\ Lower(strip(chat.input[chat.out[i].n])) = <<"h","i","s","t","o","r","y">>

\* C40: once the input has ended and the next read fails, the session
\* leaves the loop and closes the memory backend
C40_EndOfInputEndsSession ==
    (chat.phase = "loop" /\ chat.pos = Len(chat.input))
    ~> (chat.phase = "returned" /\ chat.closed)

\* the fast path finds the database file or the schema snapshot missing
FastPathFileMissing ==
    /\ ~ cli.args.database
    /\ cli.args.mode # "none"
    /\ (~ cli.db_file \/ cli.file.state = "absent")

\* C33 as stated: status 1 without --chat and --question, on interruption,
\* on a missing database file or snapshot in the fast path and on any
\* uncaught error; status 0 only on success
C33_Original ==
    cli.pc = "exited"
    => /\ (cli.cause \in { "usage", "interrupt", "error" } \/ cli.chat_interrupted)
          => cli.exit_code = 1
       /\ FastPathFileMissing => cli.exit_code = 1
       /\ cli.exit_code = 0 => cli.cause = "return"

\* C33: status 1 without --chat and --question, on an interruption that
\* reaches main, on a missing database file or snapshot in the fast path and
\* on any uncaught error; status 0 exactly when main returns, which includes
\* a chat session ended by an interruption inside its loop
C33_ExitStatus ==
    cli.pc = "exited"
    => /\ cli.cause \in { "usage", "interrupt", "error" } => cli.exit_code = 1
       /\ FastPathFileMissing => (cli.exit_code = 1 /\ cli.cause = "error")
       /\ cli.exit_code = 0 <=> cli.cause = "return"
       /\ cli.chat_interrupted => cli.exit_code = 0

\* a fast-path question run that found no schema snapshot has exited
C33_Witness ==
    /\ cli.pc = "exited"
    /\ ~ cli.args.database
    /\ cli.args.mode = "question"
    /\ cli.db_file
    /\ cli.file.state = "absent"
    /\ cli.exit_code = 1

====
